---- MODULE Spec2Model ----
(***************************************************************************)
(* otto_FTAF: finite-time air-fuel Otto cycle.                             *)
(*                                                                         *)
(* A model of the mixture classes of therm/ideal_mix.py (ChemMix, FuelMix, *)
(* IdealMix, OttoMix) and of the cycle solver of cycle/otto.py (Solve).    *)
(*                                                                         *)
(* The numbers of the mixture classes are exact rationals <<n, d>>         *)
(* (d > 0, gcd(n, d) = 1); the numbers of the cycle arrays are decimal     *)
(* floating-point numbers <<m, e>> of four digits.  Every operation is     *)
(* computed term by term as the source computes it.                        *)
(***************************************************************************)
EXTENDS Integers, Sequences, FiniteSets, TLC

VARIABLES
    Xis,     \* ChemMix.__Xis: the class-level dictionary shared by all mixtures
    objs,    \* the mixture instances constructed so far, in order of construction
    ret,     \* what the last operation returned
    cyc,     \* the Solve instance of the process and the position of its call
    ref,     \* what results(z) returned on an earlier fresh Solve, per z
    tick,    \* flips at every step of a call of the Solve instance that is under way
    eng      \* the call of alt_eng.solver of the process: its dictionary and its position

vars == <<Xis, objs, ret, cyc, ref, tick, eng>>

(***************************************************************************)
(* Rational arithmetic                                                     *)
(***************************************************************************)
Abs(x) == IF x < 0 THEN -x ELSE x

RECURSIVE GCD(_, _)
GCD(a, b) == IF b = 0 THEN a ELSE GCD(b, a % b)

Rat(n, d) ==
    LET g == GCD(Abs(n), Abs(d))
        s == IF d < 0 THEN -1 ELSE 1
    IN  <<(s * n) \div g, (s * d) \div g>>

RInt(n) == <<n, 1>>
RZero == <<0, 1>>
ROne == <<1, 1>>

a ++ b ==
    IF b[1] = 0 THEN a
    ELSE IF a[1] = 0 THEN b
    ELSE LET g == GCD(a[2], b[2])
         IN  Rat(a[1] * (b[2] \div g) + b[1] * (a[2] \div g), (a[2] \div g) * b[2])
RNeg(a) == <<-a[1], a[2]>>
a -- b ==
    IF b[1] = 0 THEN a
    ELSE IF a[1] = 0 THEN <<-b[1], b[2]>>
    ELSE LET g == GCD(a[2], b[2])
         IN  Rat(a[1] * (b[2] \div g) - b[1] * (a[2] \div g), (a[2] \div g) * b[2])
a ** b ==
    IF a[1] = 0 \/ b[1] = 0 THEN RZero
    ELSE LET g1 == GCD(Abs(a[1]), b[2])
             g2 == GCD(Abs(b[1]), a[2])
         IN  <<(a[1] \div g1) * (b[1] \div g2), (a[2] \div g2) * (b[2] \div g1)>>
\* a / b; no value when b is zero
a // b ==
    CASE b[1] > 0 -> a ** <<b[2], b[1]>>
      [] b[1] < 0 -> a ** <<-b[2], -b[1]>>
RLt(a, b) == (a -- b)[1] < 0
RLe(a, b) == (a -- b)[1] <= 0
RAbs(a) == <<Abs(a[1]), a[2]>>

\* The sum of a sequence of rationals, its elements evaluated first
RECURSIVE RSumRange(_, _, _)
RSumRange(s, lo, hi) ==
    IF lo = hi THEN s[lo]
    ELSE RSumRange(s, lo, (lo + hi) \div 2) ++ RSumRange(s, (lo + hi) \div 2 + 1, hi)
RSum(s) == IF Len(s) = 0 THEN RZero ELSE RSumRange(s \o <<>>, 1, Len(s))

\* F of the value of v: v is evaluated before F is entered, as one statement
\* runs before the next
Then(v, F(_)) == CHOOSE r \in {F(x) : x \in {v}} : TRUE

(***************************************************************************)
(* Python dictionaries: insertion-ordered sequences of <<key, value>>      *)
(***************************************************************************)
DictHas(d, k) == \E i \in 1..Len(d) : d[i][1] = k
DictGet(d, k) == d[CHOOSE i \in 1..Len(d) : d[i][1] = k][2]
DictSet(d, k, v) ==
    IF DictHas(d, k)
    THEN [i \in 1..Len(d) |-> IF d[i][1] = k THEN <<k, v>> ELSE d[i]]
    ELSE Append(d, <<k, v>>)
DictKeys(d) == [i \in 1..Len(d) |-> d[i][1]]
DictValues(d) == [i \in 1..Len(d) |-> d[i][2]]

(***************************************************************************)
(* Reference data: chem/elem.py, chem/molec.py, therm/props.py,            *)
(* chem/air.py, scipy.constants                                            *)
(***************************************************************************)
\* molec.atomize: the atoms of each formula the model uses
atomize(formula) ==
    CASE formula = "CH4"   -> [C |-> 1, H |-> 4,  O |-> 0, N |-> 0]
      [] formula = "C8H18" -> [C |-> 8, H |-> 18, O |-> 0, N |-> 0]
      [] formula = "C2H6O" -> [C |-> 2, H |-> 6,  O |-> 1, N |-> 0]
      [] formula = "O2"    -> [C |-> 0, H |-> 0,  O |-> 2, N |-> 0]
      [] formula = "N2"    -> [C |-> 0, H |-> 0,  O |-> 0, N |-> 2]
      [] formula = "CO2"   -> [C |-> 1, H |-> 0,  O |-> 2, N |-> 0]
      [] formula = "H2O"   -> [C |-> 0, H |-> 2,  O |-> 1, N |-> 0]
      [] formula = "CO"    -> [C |-> 1, H |-> 0,  O |-> 1, N |-> 0]
      [] formula = "H2"    -> [C |-> 0, H |-> 2,  O |-> 0, N |-> 0]

\* molec.m: abundance-weighted atomic masses, rounded to whole g/mol
MassC == 12
MassH == 1
MassO == 16
MassN == 14

\* molec.massa_molar(formula), g/mol
massa_molar(formula) ==
    LET at == atomize(formula)
    IN  RInt(at.C * MassC + at.H * MassH + at.O * MassO + at.N * MassN)

\* stdProps[formula]['g']['hf0'], kJ/mol
hf0(formula) ==
    CASE formula = "CH4"   -> Rat(-746, 10)
      [] formula = "C8H18" -> Rat(-2085, 10)
      [] formula = "C2H6O" -> Rat(-2348, 10)
      [] formula = "CO2"   -> Rat(-3935, 10)
      [] formula = "H2O"   -> Rat(-2418, 10)
      [] formula = "CO"    -> Rat(-1105, 10)
      [] OTHER             -> RZero

\* stdProps[formula]['g']['c_p'], J/mol.K
c_p(formula) ==
    CASE formula = "CH4"   -> Rat(357, 10)
      [] formula = "C8H18" -> Rat(1955, 10)
      [] formula = "C2H6O" -> Rat(656, 10)
      [] formula = "CO2"   -> Rat(371, 10)
      [] formula = "H2O"   -> Rat(336, 10)
      [] formula = "CO"    -> Rat(291, 10)
      [] formula = "H2"    -> Rat(288, 10)
      [] formula = "O2"    -> Rat(294, 10)
      [] formula = "N2"    -> Rat(291, 10)

\* IdealMix.__Ru = constants.R / 1000.0 (8.3144598e-3 kJ/K.mol), to two digits
Ru == Rat(83, 10000)

\* air.Ar().psi = 3.76, and Ar().mix_air
psi_ar == Rat(376, 100)
mix_air == [O2 |-> ROne // (ROne ++ psi_ar), N2 |-> psi_ar // (ROne ++ psi_ar)]

\* burnt_n_i(k = 3.5)
k_default == Rat(35, 10)

\* The burnt species, in the order of __burnt_N
BurntSpecies == <<"CO2", "H2O", "CO", "H2", "O2", "N2">>

(***************************************************************************)
(* therm/fuels.py: class Fuel                                              *)
(***************************************************************************)
\* Fuel.find_n_is
find_n_is(formula) == atomize(formula)

\* The denominator of Fuel.epsilon: n_c + n_h/4 - n_o/2. Fuel.__init__ raises
\* ZeroDivisionError when it is zero.
EpsDen(formula) ==
    LET at == atomize(formula)
    IN  (RInt(at.C) ++ Rat(at.H, 4)) -- Rat(at.O, 2)
FuelRaises(formula) == EpsDen(formula) = RZero

(***************************************************************************)
(* therm/ideal_mix.py: ChemMix, FuelMix, IdealMix                          *)
(*                                                                         *)
(* A mixture instance is a record.  mix is the instance dictionary __mix,  *)
(* N the mole array __N.  The class-level dictionary __Xis is passed in    *)
(* and returned by every operation that writes it.                         *)
(***************************************************************************)
\* ChemMix.mols_total
mols_total(o) == RSum(o.N)

\* ChemMix.frac_molar: Xis[key] = N[i] / total for each key of the instance's
\* mix; a key Xis holds keeps its place, a new key goes to the end
frac_molar(X, o) ==
    LET total == mols_total(o)
        keys  == DictKeys(o.mix)
        xi(k) == o.N[CHOOSE i \in 1..Len(keys) : keys[i] = k] // total
        old   == [j \in 1..Len(X) |->
                     IF \E i \in 1..Len(keys) : keys[i] = X[j][1]
                     THEN <<X[j][1], xi(X[j][1])>> ELSE X[j]]
        new   == SelectSeq(keys, LAMBDA k : ~DictHas(X, k))
    IN  (old \o <<>>) \o [j \in 1..Len(new) |-> <<new[j], xi(new[j])>>]

\* ChemMix.massa_molar_total: frac_molar(), then sum of M_i * Xis[key_i] / 1000
massa_molar_total(X, o) ==
    Then(frac_molar(X, o), LAMBDA X1 :
        RSum([i \in 1..Len(o.mix) |->
                (massa_molar(o.mix[i][1]) ** DictGet(X1, o.mix[i][1])) // RInt(1000)]))

\* ChemMix.massa_total: total_mols * massa_molar
massa_total(X, o) == mols_total(o) ** massa_molar_total(X, o)

\* IdealMix.cp_is / cv_is: c_p / 1000 and c_p / 1000 - Ru, kJ/mol.K
cp_i(formula) == c_p(formula) // RInt(1000)
cv_i(formula) == cp_i(formula) -- Ru

\* IdealMix.capacidade_termica_v: sum of cv_i[key_i] * n_s[i]
capacidade_termica_v(mix, N) ==
    RSum([i \in 1..Len(mix) |-> cv_i(mix[i][1]) ** N[i]])

\* FuelMix.n_is: the atoms of every key of mix, added up
RECURSIVE AtomSum(_, _, _)
AtomSum(keys, el, i) ==
    IF i > Len(keys) THEN 0
    ELSE find_n_is(keys[i])[el] + AtomSum(keys, el, i + 1)
n_is(keys) ==
    [C |-> AtomSum(keys, "C", 1), H |-> AtomSum(keys, "H", 1),
     O |-> AtomSum(keys, "O", 1), N |-> AtomSum(keys, "N", 1)]

\* FuelMix.mix_epsilon
mix_epsilon(at) == ROne // ((RInt(at.C) ++ Rat(at.H, 4)) -- Rat(at.O, 2))

Zip(ks, vs) == [i \in 1..Len(ks) |-> <<ks[i], vs[i]>>]
Zeros(n) == [i \in 1..n |-> RZero]

(***************************************************************************)
(* OttoMix.__init__, through ChemMix.__init__, FuelMix.__init__ and        *)
(* IdealMix.__init__.  X is ChemMix.__Xis as the constructor finds it.     *)
(* Returns the new instance and the dictionary as the constructor leaves   *)
(* it.                                                                     *)
(***************************************************************************)
OttoMixInit(X, fuel, props, phi, pressao, temperatura, volume, q_ext) ==
    LET \* ChemMix.__init__
        o0   == [mix |-> Zip(fuel, props), N |-> props]
        \* FuelMix.__init__: frac_molar(), then prop = list(self.xi.values())
        X1   == frac_molar(X, o0)
        prop == DictValues(X1)
        \* OttoMix.__init__
        at   == n_is(DictKeys(o0.mix))
        eps  == mix_epsilon(at)
        n_ar == ((pressao ** volume) // (Ru ** temperatura))
                // (ROne ++ ((phi ** eps) // (ROne ++ psi_ar)))
        n_F  == ((n_ar ** phi) ** eps) // (ROne ++ psi_ar)
        new_mix == [i \in 1..Len(fuel) |-> <<fuel[i], n_F ** prop[i]>>]
                   \o << <<"O2", mix_air.O2 ** n_ar>>, <<"N2", mix_air.N2 ** n_ar>> >>
        new_n == DictValues(new_mix)
    IN  [Xis |-> X1,
         obj |-> [fuel |-> fuel, props |-> props,
                  mix |-> new_mix, N |-> new_n,
                  prop |-> prop, hi_formacao |-> Zeros(Len(prop)), h_form |-> RZero,
                  nC |-> at.C, nH |-> at.H, nO |-> at.O, nN |-> at.N, Eps |-> eps,
                  phi |-> phi, Qext |-> q_ext, psi |-> psi_ar,
                  n_ar |-> n_ar, n_F |-> n_F,
                  P0 |-> pressao, T0 |-> temperatura, V0 |-> volume,
                  U0 |-> capacidade_termica_v(new_mix, new_n) ** temperatura,
                  nCO2 |-> RZero, nH2O |-> RZero, nCO |-> RZero, nH2 |-> RZero,
                  nO2 |-> RZero, nN2 |-> RZero,
                  burnt_nTotal |-> RZero, burnt_N |-> <<>>]]

(***************************************************************************)
(* math.sqrt on the rationals: the root of q >= 0 rounded down to three    *)
(* decimal digits (the source rounds to a double).                         *)
(***************************************************************************)
\* floor(sqrt(n)) for 0 <= n < 2^31, found in two scans of 216 candidates
ISqrt(n) ==
    LET h == CHOOSE x \in 0..214 :
                 (x * 216) * (x * 216) <= n
                 /\ (x = 214 \/ n < ((x + 1) * 216) * ((x + 1) * 216))
    IN  CHOOSE r \in (h * 216)..(h * 216 + 215) :
            r <= 46340 /\ r * r <= n /\ (r = 46340 \/ n < (r + 1) * (r + 1))

\* floor(q * 10^6) for q = <<n, d>>, by long division three digits at a time
Scaled(n, d) ==
    LET r0 == n % d
        r1 == (r0 * 1000) % d
    IN  (n \div d) * 1000000 + ((r0 * 1000) \div d) * 1000 + ((r1 * 1000) \div d)
sqrt(q) == Rat(ISqrt(Scaled(q[1], q[2])), 1000)

(***************************************************************************)
(* The floating-point numbers of the cycle arrays (numpy.float64 in the    *)
(* source): <<m, e>> stands for m * 10^e, with a mantissa of four decimal  *)
(* digits, 1000 <= |m| <= 9999, and <<0, 0>> for zero.  Every operation    *)
(* rounds its exact result to the nearest such number.                     *)
(***************************************************************************)
Pow10(k) == <<1, 10, 100, 1000, 10000, 100000, 1000000, 10000000, 100000000,
              1000000000>>[k + 1]
\* the number of decimal digits of a >= 1
Digits(a) == CHOOSE d \in 1..10 : Pow10(d - 1) <= a /\ (d = 10 \/ a < Pow10(d))
Sign(n) == IF n < 0 THEN -1 ELSE 1
\* sg * a * 10^e for an integer a >= 1 of d > 4 digits, u = 10^(d - 4),
\* rounded to four digits
FRoundDown(sg, a, u, e, d) ==
    IF (a + (u \div 2)) \div u = 10000
    THEN <<sg * 1000, e + (d - 4) + 1>>
    ELSE <<sg * ((a + (u \div 2)) \div u), e + (d - 4)>>
\* sg * a * 10^e for an integer a >= 1 of d digits
FRound(sg, a, d, e) ==
    IF d <= 4 THEN <<sg * a * Pow10(4 - d), e - (4 - d)>>
    ELSE FRoundDown(sg, a, Pow10(d - 4), e, d)
\* n * 10^e for any integer n
FNorm(n, e) ==
    Then(n, LAMBDA v :
        IF v = 0 THEN <<0, 0>>
        ELSE Then(Digits(Abs(v)), LAMBDA d : FRound(Sign(v), Abs(v), d, e)))

FZero == <<0, 0>>
FOne == <<1000, -3>>
FNeg(a) == Then(a, LAMBDA x : <<-x[1], x[2]>>)
FAbs(a) == Then(a, LAMBDA x : <<Abs(x[1]), x[2]>>)
FMul(a, b) ==
    Then(<<a, b>>, LAMBDA p : FNorm(p[1][1] * p[2][1], p[1][2] + p[2][2]))
\* no value when b is zero
FDiv(a, b) ==
    Then(<<a, b>>, LAMBDA p :
        CASE p[2][1] # 0 ->
            FNorm((p[1][1] * 100000) \div p[2][1], (p[1][2] - p[2][2]) - 5))
\* a + b for a[2] >= b[2], neither zero: b is lost when it is below half a
\* unit in the last place of a
FAddOrdered(a, b) ==
    IF a[2] - b[2] > 5 THEN a
    ELSE FNorm(a[1] * Pow10(a[2] - b[2]) + b[1], b[2])
FAdd(a, b) ==
    Then(<<a, b>>, LAMBDA p :
        IF p[2][1] = 0 THEN p[1] ELSE IF p[1][1] = 0 THEN p[2]
        ELSE IF p[1][2] >= p[2][2] THEN FAddOrdered(p[1], p[2])
        ELSE FAddOrdered(p[2], p[1]))
FSub(a, b) == FAdd(a, FNeg(b))
FLt(a, b) == FSub(a, b)[1] < 0
FLe(a, b) == FSub(a, b)[1] <= 0
\* the float nearest to a rational of the mixture model
FromRat(q) == Then(q, LAMBDA x : FDiv(FNorm(x[1], 0), FNorm(x[2], 0)))

\* math.sqrt / numpy.sqrt of a >= 0
FSqrt(a) ==
    Then(a, LAMBDA x :
        IF x[1] = 0 THEN FZero
        ELSE IF x[2] % 2 = 0 THEN FNorm(ISqrt(x[1] * 10000), (x[2] - 4) \div 2)
        ELSE FNorm(ISqrt(x[1] * 100000), (x[2] - 5) \div 2))

\* a as an integer number of 1/10000, for |a| < 200000
Fix4(a) ==
    Then(a, LAMBDA x :
        IF x[1] = 0 THEN 0
        ELSE IF x[2] >= -4 THEN x[1] * Pow10(x[2] + 4)
        ELSE IF x[2] < -12 THEN 0
        ELSE Sign(x[1]) * ((Abs(x[1]) + (Pow10(-4 - x[2]) \div 2)) \div Pow10(-4 - x[2])))

Ln2x4 == 6931      \* ln 2 in 1/10000
Ln10x4 == 23026    \* ln 10 in 1/10000

\* ln(w / 10000) in 1/10000 for 10000 <= w < 20000: 2 atanh(t) for
\* t = (w - 1) / (w + 1), by its series up to the seventh power; t2 is t * t
LnTerms(t, t2) ==
    2 * (t + ((t2 * t) \div 30000)
           + ((((t2 * t) \div 10000) * t2) \div 50000)
           + ((((((t2 * t) \div 10000) * t2) \div 10000) * t2) \div 70000))
LnSeries(t) == LnTerms(t, (t * t) \div 10000)
LnUnit(w) == Then(((w - 10000) * 10000) \div (w + 10000), LAMBDA t : LnSeries(t))
\* ln(u / 1000) in 1/10000 for 1000 <= u <= 9999
LnMant(u) ==
    IF u < 2000 THEN LnUnit(u * 10)
    ELSE IF u < 4000 THEN Ln2x4 + LnUnit(u * 5)
    ELSE IF u < 8000 THEN 2 * Ln2x4 + LnUnit((u * 5) \div 2)
    ELSE 3 * Ln2x4 + LnUnit((u * 5) \div 4)
\* math.log(a): no value unless a > 0 (the source raises ValueError; the
\* callers test the sign first)
FLn(a) ==
    Then(a, LAMBDA x :
        CASE x[1] > 0 -> FNorm(LnMant(x[1]) + (x[2] + 3) * Ln10x4, -4))

\* exp(s / 10000) in 1/10000 for 0 <= s < Ln2x4, by its series up to the
\* sixth power
ExpSeries(s) ==
    10000 + s + ((s * s) \div 20000)
    + ((((s * s) \div 20000) * s) \div 30000)
    + ((((((s * s) \div 20000) * s) \div 30000) * s) \div 40000)
    + ((((((((s * s) \div 20000) * s) \div 30000) * s) \div 40000) * s) \div 50000)
    + ((((((((((s * s) \div 20000) * s) \div 30000) * s) \div 40000) * s) \div 50000) * s)
         \div 60000)
\* exp(y / 10000) for an integer y, |y| < 2000000
ExpFix(y) ==
    Then(y, LAMBDA v :
        FNorm(ExpSeries((v % Ln10x4) % Ln2x4) * <<1, 2, 4, 8>>[((v % Ln10x4) \div Ln2x4) + 1],
              (v \div Ln10x4) - 4))
\* a ** b for a > 0: exp(b * ln a)
FPow(a, b) == ExpFix(Fix4(FMul(b, FLn(a))))

(***************************************************************************)
(* therm/ideal_mix.py: OttoMix                                             *)
(*                                                                         *)
(* Every operation returns [err, obj, Xis, val]: the exception raised ("" *)
(* for none), the instance and the class dictionary as the operation       *)
(* leaves them, and the returned numbers.                                  *)
(***************************************************************************)
Result(err, o, X, val) == [err |-> err, obj |-> o, Xis |-> X, val |-> val]

\* FuelMix.h_formacao: for i in range(len(hi_formacao)) over the keys of mix
h_formacao(o) ==
    LET keys == DictKeys(o.mix)
        n    == Len(o.hi_formacao)
        bad  == {i \in 1..n : i > Len(keys) \/ FuelRaises(keys[i])}
        f    == CHOOSE i \in bad : \A j \in bad : i <= j
        upto(m) == [i \in 1..n |-> IF i <= m THEN hf0(keys[i]) ELSE o.hi_formacao[i]]
    IN  IF bad = {}
        THEN [err |-> "",
              obj |-> [o EXCEPT !.hi_formacao = upto(n),
                                !.h_form = RSum([i \in 1..n |-> o.prop[i] ** hf0(keys[i])])]]
        ELSE [err |-> IF f > Len(keys) THEN "IndexError" ELSE "ZeroDivisionError",
              obj |-> [o EXCEPT !.hi_formacao = upto(f - 1)]]

\* air O2 of the mixture: n_ar / (1 + psi)
AirO2(o) == o.n_ar // (ROne ++ o.psi)

\* The coefficients of the rich-mixture quadratic in the CO amount
QuadA(o, k) == k -- ROne
QuadB(o, k) ==
    ((RInt(2) ** ((RInt(o.nC) ** o.n_F) -- AirO2(o)))
     ++ (k ** ((RInt(2) ** (o.n_ar // (o.psi ++ ROne)))
               -- (((RInt(3 * o.nC) ++ Rat(o.nH, 2)) -- RInt(o.nO)) ** o.n_F))))
    -- (RInt(o.nO) ** o.n_F)
QuadC(o, k) ==
    ((k ** RInt(o.nC)) ** o.n_F)
    ** ((((RInt(2 * o.nC) ** o.n_F) ++ ((RInt(o.nH) ** o.n_F) // RInt(2)))
         -- (RInt(o.nO) ** o.n_F))
        -- (RInt(2) ** (o.n_ar // (o.psi ++ ROne))))
\* bb ** 2 - 4.0 * aa * cc
Disc(aa, bb, cc) == (bb ** bb) -- ((RInt(4) ** aa) ** cc)
QuadDisc(o, k) == Disc(QuadA(o, k), QuadB(o, k), QuadC(o, k))

\* _c: the root taken first, replaced by the conjugate when negative
RootMinus(aa, bb, disc) == (RNeg(bb) -- sqrt(disc)) // (RInt(2) ** aa)
RootPlus(aa, bb, disc)  == (RNeg(bb) ++ sqrt(disc)) // (RInt(2) ** aa)
\* A faulty selection: the conjugate root whatever the sign of the first
SelectRootConjugate(aa, bb, disc) == RootPlus(aa, bb, disc)
SelectRoot(aa, bb, disc) ==
    Then(RootMinus(aa, bb, disc), LAMBDA c :
        IF c[1] < 0 THEN RootPlus(aa, bb, disc) ELSE c)

\* The lean branch (phi <= 1.0) of burnt_n_i
BurntLean(o) ==
    LET nCO2 == RInt(o.nC) ** o.n_F
        nH2O == (RInt(o.nH) ** o.n_F) // RInt(2)
        nO2  == ((AirO2(o) ++ ((RInt(o.nO) ** o.n_F) // RInt(2)))
                 -- (RInt(o.nC) ** o.n_F)) -- ((RInt(o.nH) ** o.n_F) // RInt(4))
        nN2  == ((o.n_ar ** o.psi) // (ROne ++ o.psi)) ++ ((RInt(o.nN) ** o.n_F) // RInt(2))
    IN  [o EXCEPT !.nCO2 = nCO2, !.nH2O = nH2O, !.nO2 = nO2, !.nN2 = nN2,
                  !.burnt_nTotal = RSum(<<nCO2, nH2O, o.nCO, o.nH2, nO2, nN2>>),
                  !.burnt_N = <<nCO2, nH2O, o.nCO, o.nH2, nO2, nN2>>]

\* The rich branch (phi > 1.0) of burnt_n_i, past the choice of the root c
BurntRich(o, c) ==
    LET w    == RInt(2) ** ((AirO2(o) ++ ((RInt(o.nO) ** o.n_F) // RInt(2)))
                            -- (RInt(o.nC) ** o.n_F))
        nCO2 == (RInt(o.nC) ** o.n_F) -- c
        nH2O == w ++ c
        nH2  == ((RInt(o.nH) ** o.n_F) -- w) -- c
        nN2  == ((o.n_ar ** o.psi) // (ROne ++ o.psi)) ++ ((RInt(o.nN) ** o.n_F) // RInt(2))
    IN  [o EXCEPT !.nCO2 = nCO2, !.nH2O = nH2O, !.nCO = c, !.nH2 = nH2, !.nN2 = nN2,
                  !.burnt_nTotal = RSum(<<nCO2, nH2O, c, nH2, o.nO2, nN2>>),
                  !.burnt_N = <<nCO2, nH2O, c, nH2, o.nO2, nN2>>]

\* A faulty burnt_n_i: on a negative discriminant the real part of the
\* complex root is taken and the amounts are stored
BurntNIRealPart(o, k) ==
    IF RLe(o.phi, ROne) THEN [err |-> "", obj |-> BurntLean(o)]
    ELSE Then(QuadB(o, k), LAMBDA bb :
         Then(Disc(QuadA(o, k), bb, QuadC(o, k)), LAMBDA disc :
            IF disc[1] < 0
            THEN [err |-> "", obj |-> BurntRich(o, RNeg(bb) // (RInt(2) ** QuadA(o, k)))]
            ELSE [err |-> "", obj |-> BurntRich(o, SelectRoot(QuadA(o, k), bb, disc))]))

\* OttoMix.burnt_n_i(k): math.sqrt raises ValueError on a negative
\* discriminant, before anything is stored
burnt_n_i(o, k) ==
    IF RLe(o.phi, ROne) THEN [err |-> "", obj |-> BurntLean(o)]
    ELSE Then(QuadB(o, k), LAMBDA bb :
         Then(Disc(QuadA(o, k), bb, QuadC(o, k)), LAMBDA disc :
            IF disc[1] < 0 THEN [err |-> "ValueError", obj |-> o]
            ELSE [err |-> "", obj |-> BurntRich(o, SelectRoot(QuadA(o, k), bb, disc))]))

\* nCO2 * hfCO2 + nH2O * hfH2O + nCO * hfCO of the stored burnt amounts
BurntEnthalpy(o) ==
    ((o.nCO2 ** hf0("CO2")) ++ (o.nH2O ** hf0("H2O"))) ++ (o.nCO ** hf0("CO"))

\* The prelude shared by q_total and qj: h_formacao(), burnt_n_i(),
\* massa_total().  val holds self.massa.
HeatPrelude(X, o) ==
    Then(h_formacao(o), LAMBDA h :
        IF h.err # "" THEN Result(h.err, h.obj, X, <<>>)
        ELSE Then(burnt_n_i(h.obj, k_default), LAMBDA b :
            IF b.err # "" THEN Result(b.err, b.obj, X, <<>>)
            ELSE Result("", b.obj, frac_molar(X, b.obj), <<massa_total(X, b.obj)>>)))

\* OttoMix.q_total(zeta), past the prelude: q the instance, massa self.massa
QTotalValue(q, massa, zeta) ==
    ((((((q.n_F ** q.h_form) -- (hf0("CO") ** q.nCO))
        -- (hf0("H2O") ** q.nH2O)) -- (hf0("CO2") ** q.nCO2))
      ++ (q.Qext ** massa)) ** (ROne -- zeta))
q_total(X, o, zeta) ==
    Then(HeatPrelude(X, o), LAMBDA p :
        IF p.err # "" THEN p
        ELSE Result("", p.obj, p.Xis, <<QTotalValue(p.obj, p.val[1], zeta)>>))

\* OttoMix.qj(y1, y2, zeta), past the prelude
QjFuel(q, y, zeta) ==
    RSum([i \in 1..Len(q.prop) |->
            ((((ROne -- y) ** (ROne -- zeta)) ** q.n_F) ** q.prop[i]) ** q.hi_formacao[i]])
QjBurnt(q, y, zeta) == (zeta ++ ((ROne -- zeta) ** y)) ** BurntEnthalpy(q)
\* A faulty heat: the external heat of the whole interval up to y2
QjValueUpTo(q, massa, y1, y2, zeta) ==
    ((QjBurnt(q, y1, zeta) -- QjBurnt(q, y2, zeta)) ++ ((q.Qext ** y2) ** massa))
    ++ (QjFuel(q, y1, zeta) -- QjFuel(q, y2, zeta))
QjValue(q, massa, y1, y2, zeta) ==
    ((QjBurnt(q, y1, zeta) -- QjBurnt(q, y2, zeta)) ++ ((q.Qext ** (y2 -- y1)) ** massa))
    ++ (QjFuel(q, y1, zeta) -- QjFuel(q, y2, zeta))
qj(X, o, y1, y2, zeta) ==
    Then(HeatPrelude(X, o), LAMBDA p :
        IF p.err # "" THEN p
        ELSE Result("", p.obj, p.Xis, <<QjValue(p.obj, p.val[1], y1, y2, zeta)>>))

\* OttoMix.chi(y, zeta), past burnt_n_i: (fuel, CO2, H2O, CO, H2, O2, N2)
\* A faulty composition: the unreacted air left out of O2 and N2
ChiValueNoAir(q, burnt, inst_f, inst_ar) ==
    <<inst_f, burnt ** q.nCO2, burnt ** q.nH2O, burnt ** q.nCO, burnt ** q.nH2,
      burnt ** q.nO2, burnt ** q.nN2>>
ChiValue(q, burnt, inst_f, inst_ar) ==
    <<inst_f, burnt ** q.nCO2, burnt ** q.nH2O, burnt ** q.nCO, burnt ** q.nH2,
      (burnt ** q.nO2) ++ (inst_ar // (ROne ++ q.psi)),
      (burnt ** q.nN2) ++ ((inst_ar ** q.psi) // (ROne ++ q.psi))>>
chi(X, o, y, zeta) ==
    Then(burnt_n_i(o, k_default), LAMBDA b :
        IF b.err # "" THEN Result(b.err, b.obj, X, <<>>)
        ELSE Result("", b.obj, X,
                    ChiValue(b.obj, zeta ++ ((ROne -- zeta) ** y),
                             ((ROne -- y) ** (ROne -- zeta)) ** b.obj.n_F,
                             ((ROne -- y) ** (ROne -- zeta)) ** b.obj.n_ar)))

\* OttoMix.nm_j(y, zeta): sum(chi(y, zeta))
nm_j(X, o, y, zeta) ==
    Then(chi(X, o, y, zeta), LAMBDA c :
        IF c.err # "" THEN c ELSE Result("", c.obj, X, <<RSum(c.val)>>))

\* The burnt part of upper_cv_j: sum of burnt_cv_i[s] * amount[s]
BurntCv(amounts) ==
    RSum([i \in 1..6 |-> cv_i(BurntSpecies[i]) ** amounts[i + 1]])

\* OttoMix.upper_cv_j(y, zeta): the loop runs over range(len(prop)) on the
\* keys of mix
UpperCvValue(amounts, keys, prop) ==
    BurntCv(amounts)
    ++ RSum([i \in 1..Len(prop) |-> (cv_i(keys[i]) ** amounts[1]) ** prop[i]])
upper_cv_j(X, o, y, zeta) ==
    Then(chi(X, o, y, zeta), LAMBDA c :
        IF c.err # "" THEN c
        ELSE IF Len(o.prop) > Len(o.mix) THEN Result("IndexError", c.obj, X, <<>>)
        ELSE Result("", c.obj, X, <<UpperCvValue(c.val, DictKeys(o.mix), o.prop)>>))

\* OttoMix.xi_j(y, zeta)[s]: the six burnt entries, then one entry per
\* index of prop written under the key of mix at that index
xi_j(amounts, tot, keys, prop, s) ==
    IF \E i \in 1..Len(prop) : keys[i] = s
    THEN (amounts[1] ** prop[CHOOSE i \in 1..Len(prop) : keys[i] = s]) // tot
    ELSE amounts[1 + CHOOSE i \in 1..6 : BurntSpecies[i] = s] // tot

\* A faulty molar specific heat: the fuel terms left out
CvMValueNoFuel(amounts, tot, keys, prop) ==
    RSum([i \in 1..6 |->
            cv_i(BurntSpecies[i]) ** xi_j(amounts, tot, keys, prop, BurntSpecies[i])])
\* OttoMix.cv_m_j(y, zeta)
CvMValue(amounts, tot, keys, prop) ==
    RSum([i \in 1..6 |->
            cv_i(BurntSpecies[i]) ** xi_j(amounts, tot, keys, prop, BurntSpecies[i])])
    ++ RSum([i \in 1..Len(prop) |-> cv_i(keys[i]) ** xi_j(amounts, tot, keys, prop, keys[i])])
cv_m_j(X, o, y, zeta) ==
    Then(chi(X, o, y, zeta), LAMBDA c :
        IF c.err # "" THEN c
        ELSE IF Len(o.prop) > Len(o.mix) THEN Result("IndexError", c.obj, X, <<>>)
        ELSE Result("", c.obj, X,
                    <<CvMValue(c.val, RSum(c.val), DictKeys(o.mix), o.prop)>>))

\* OttoMix.burnt_mass: burnt_nTotal * sum of burnt_xi[s] * M_s / 1000
BurntMassValue(q) ==
    q.burnt_nTotal
    ** RSum([i \in 1..6 |->
               ((q.burnt_N[i] // q.burnt_nTotal) ** massa_molar(BurntSpecies[i]))
               // RInt(1000)])
burnt_mass(X, o) ==
    Then(burnt_n_i(o, k_default), LAMBDA b :
        IF b.err # "" THEN Result(b.err, b.obj, X, <<>>)
        ELSE Result("", b.obj, X, <<BurntMassValue(b.obj)>>))

(***************************************************************************)
(* Inputs                                                                  *)
(***************************************************************************)
MaxObjs == 2      \* mixtures constructed in one process
MaxFuels == 2     \* fuels in one fuel list
MaxProp == 2      \* a proportion is one of 1..MaxProp

FuelNames == {"CH4", "C2H6O"}
FuelLists ==
    {f \in UNION {[1..n -> FuelNames] : n \in 1..MaxFuels} :
        \A i, j \in DOMAIN f : i # j => f[i] # f[j]}
\* proportions, given relative to the first fuel
PropLists(n) == {p \in [1..n -> {RInt(q) : q \in 1..MaxProp}] : p[1] = ROne}
PhiSet == {Rat(1, 2), ROne, Rat(3, 2)}
QextSet == {RZero, RInt(5)}
YSet == {RZero, Rat(1, 2), ROne}
ZetaSet == {RZero, Rat(1, 10), ROne}

\* pressao (kPa), temperatura (K), volume (m3) of every mixture of the model
Pressao == RInt(100)
Temperatura == RInt(300)
\* The volume that holds one mole of O2 with its air and the fuel for phi
Volume(fuel, phi) ==
    ((Ru ** Temperatura) // Pressao)
    ** ((ROne ++ psi_ar) ++ (phi ** mix_epsilon(n_is(fuel))))

NoRet == [op |-> "none", who |-> 0, args |-> <<>>, err |-> "", val |-> <<>>]
\* no Solve instance in the process
NoSolve == [pc |-> "none"]
\* no call of alt_eng.solver in the process
NoEng == [pc |-> "none"]
Ret(op, who, args, r) == [op |-> op, who |-> who, args |-> args, err |-> r.err, val |-> r.val]

(***************************************************************************)
(* Spec: one process in which mixtures are constructed and used in any     *)
(* order.                                                                  *)
(***************************************************************************)
Init ==
    /\ Xis = <<>>
    /\ objs = <<>>
    /\ ret = NoRet
    /\ cyc = NoSolve
    /\ ref = <<>>
    /\ tick = FALSE
    /\ eng = NoEng

\* The (fuel, phi) of the mixtures of this process
WorldInputs ==
    {<<<<"CH4">>, Rat(12, 25)>>, <<<<"C8H18">>, Rat(1, 2)>>, <<<<"C8H18">>, ROne>>}

\* OttoMix(fuel, props, phi, pressao, temperatura, volume, q_ext)
NewOttoMix ==
    \E in \in WorldInputs :
        LET fuel == in[1]
            phi == in[2]
            r == OttoMixInit(Xis, fuel, [i \in 1..Len(fuel) |-> ROne], phi,
                             Pressao, Temperatura, Volume(fuel, phi), RZero)
        IN  /\ Len(objs) < MaxObjs
            /\ objs' = Append(objs, r.obj)
            /\ Xis' = r.Xis
            /\ ret' = Ret("OttoMix", Len(objs) + 1, <<>>, Result("", r.obj, r.Xis, <<>>))
            /\ UNCHANGED <<cyc, ref, tick, eng>>

\* The effect of an operation result r of instance i
Apply(op, i, args, r) ==
    /\ objs' = [objs EXCEPT ![i] = r.obj]
    /\ Xis' = r.Xis
    /\ ret' = Ret(op, i, args, r)
    /\ UNCHANGED <<cyc, ref, tick, eng>>

\* objs[i].massa_total()
MassaTotal ==
    \E i \in 1..Len(objs) :
        Apply("massa_total", i, <<>>,
              Result("", objs[i], frac_molar(Xis, objs[i]), <<massa_total(Xis, objs[i])>>))

\* objs[i].qj(y1, y2, zeta)
Qj ==
    \E i \in 1..Len(objs), y1 \in {RZero}, y2 \in {ROne}, zeta \in {RZero, Rat(1, 10)} :
        Apply("qj", i, <<y1, y2, zeta>>, qj(Xis, objs[i], y1, y2, zeta))

\* objs[i].upper_cv_j(y, zeta)
UpperCvJ ==
    \E i \in 1..Len(objs), y \in {RZero, ROne}, zeta \in {Rat(1, 10)} :
        Apply("upper_cv_j", i, <<y, zeta>>, upper_cv_j(Xis, objs[i], y, zeta))

Next == NewOttoMix \/ MassaTotal \/ Qj \/ UpperCvJ

Spec == Init /\ [][Next]_vars

\* The instance a constructor call with the arguments of o builds in a
\* process of its own
Solo(o) == OttoMixInit(<<>>, o.fuel, o.props, o.phi, o.P0, o.T0, o.V0, o.Qext).obj

\* C1: instances are independent: every instance holds the proportions and
\* the mixture it would hold had it been constructed alone, and qj and
\* upper_cv_j return (or raise) what they would on that solitary instance.
C1_InstancesIndependent ==
    /\ \A i \in 1..Len(objs) :
          /\ objs[i].prop = Solo(objs[i]).prop
          /\ objs[i].mix = Solo(objs[i]).mix
    /\ ret.op = "qj" =>
          LET r == qj(<<>>, Solo(objs[ret.who]), ret.args[1], ret.args[2], ret.args[3])
          IN  ret.err = r.err /\ ret.val = r.val
    /\ ret.op = "upper_cv_j" =>
          LET r == upper_cv_j(<<>>, Solo(objs[ret.who]), ret.args[1], ret.args[2])
          IN  ret.err = r.err /\ ret.val = r.val

(***************************************************************************)
(* SpecMix: one OttoMix constructed first in its process, then used.       *)
(***************************************************************************)
InitMix ==
    \E fuel \in FuelLists, phi \in PhiSet, q_ext \in QextSet :
        \E props \in PropLists(Len(fuel)) :
            LET r == OttoMixInit(<<>>, fuel, props, phi,
                                 Pressao, Temperatura, Volume(fuel, phi), q_ext)
            IN  /\ Xis = r.Xis
                /\ objs = <<r.obj>>
                /\ ret = NoRet
                /\ cyc = NoSolve
                /\ ref = <<>>
                /\ tick = FALSE
                /\ eng = NoEng

\* objs[1].burnt_n_i()
MixBurntNI ==
    LET b == burnt_n_i(objs[1], k_default)
    IN  Apply("burnt_n_i", 1, <<>>,
              Result(b.err, b.obj, Xis, IF b.err = "" THEN b.obj.burnt_N ELSE <<>>))

\* objs[1].chi(y, zeta)
MixChi ==
    \E y \in YSet, zeta \in ZetaSet :
        Apply("chi", 1, <<y, zeta>>, chi(Xis, objs[1], y, zeta))

\* objs[1].qj(y1, y2, zeta)
MixQj ==
    \E y1 \in YSet, y2 \in YSet, zeta \in ZetaSet :
        /\ RLt(y1, y2)
        /\ Apply("qj", 1, <<y1, y2, zeta>>, qj(Xis, objs[1], y1, y2, zeta))

\* objs[1].q_total(zeta)
MixQTotal ==
    \E zeta \in ZetaSet :
        Apply("q_total", 1, <<zeta>>, q_total(Xis, objs[1], zeta))

\* objs[1].burnt_mass()
MixBurntMass == Apply("burnt_mass", 1, <<>>, burnt_mass(Xis, objs[1]))

\* objs[1].massa_total()
MixMassaTotal ==
    Apply("massa_total", 1, <<>>,
          Result("", objs[1], frac_molar(Xis, objs[1]), <<massa_total(Xis, objs[1])>>))

NextMix ==
    MixBurntNI \/ MixChi \/ MixQj \/ MixQTotal \/ MixBurntMass \/ MixMassaTotal

SpecMix == InitMix /\ [][NextMix]_vars

\* The atoms of element el in amounts[i] moles of each keys[i]
AtomTotal(keys, amounts, el) ==
    RSum([i \in 1..Len(keys) |-> RInt(atomize(keys[i])[el]) ** amounts[i]])
Elements == {"C", "H", "O", "N"}

\* The unreacted fuel and air the constructor stored, against the stored
\* burnt composition
AtomsConserved(o) ==
    \A el \in Elements :
        AtomTotal(BurntSpecies, o.burnt_N, el) = AtomTotal(DictKeys(o.mix), o.N, el)

\* C3: for phi <= 1 and every fuel list, the C, H, O and N atoms of the burnt
\* composition burnt_n_i returns equal those of the unreacted mixture, and
\* burnt_mass() equals the unreacted mass.
C3_LeanAtomsConserved ==
    /\ (ret.op = "burnt_n_i" /\ ret.err = "" /\ RLe(objs[1].phi, ROne)) =>
          /\ ret.val = objs[1].burnt_N
          /\ AtomsConserved(objs[1])
    /\ (ret.op = "burnt_mass" /\ ret.err = "" /\ RLe(objs[1].phi, ROne)) =>
          ret.val[1] = massa_total(Xis, objs[1])

\* C4: for phi > 1 with a non-negative discriminant, the C, H, O and N atoms
\* of the burnt composition burnt_n_i returns equal those of the unreacted
\* mixture.
C4_RichAtomsConserved ==
    (ret.op = "burnt_n_i" /\ ret.err = "" /\ ~RLe(objs[1].phi, ROne)) =>
        /\ ret.val = objs[1].burnt_N
        /\ AtomsConserved(objs[1])

\* C5: for phi > 1 with a non-negative discriminant, the CO amount stored by
\* burnt_n_i is the root (-b - sqrt(disc)) / (2a) when that root is not
\* negative and the root (-b + sqrt(disc)) / (2a) otherwise, and it is not
\* negative.
C5_RichRootSelected ==
    (ret.op = "burnt_n_i" /\ ret.err = "" /\ ~RLe(objs[1].phi, ROne)) =>
        LET aa   == QuadA(objs[1], k_default)
            bb   == QuadB(objs[1], k_default)
            disc == QuadDisc(objs[1], k_default)
            m    == RootMinus(aa, bb, disc)
        IN  /\ disc[1] >= 0
            /\ objs[1].nCO = IF m[1] >= 0 THEN m ELSE RootPlus(aa, bb, disc)
            /\ objs[1].nCO[1] >= 0
            /\ ret.val[3] = objs[1].nCO

\* a rich mixture's burnt_n_i has returned, the smaller root was taken
C5_Witness ==
    /\ ret.op = "burnt_n_i" /\ ret.err = ""
    /\ objs[1].phi = Rat(3, 2)
    /\ objs[1].nCO[1] > 0
    /\ objs[1].nCO # RootPlus(QuadA(objs[1], k_default), QuadB(objs[1], k_default),
                              QuadDisc(objs[1], k_default))

\* C6: qj(y0, y2, zeta) = qj(y0, y1, zeta) + qj(y1, y2, zeta) for every
\* y0 <= y1 <= y2, zero external heat or not.
C6_QjAdditive ==
    (ret.op = "qj" /\ ret.err = "") =>
        \A ym \in YSet :
            (RLe(ret.args[1], ym) /\ RLe(ym, ret.args[2])) =>
                ret.val[1] = qj(Xis, objs[1], ret.args[1], ym, ret.args[3]).val[1]
                             ++ qj(Xis, objs[1], ym, ret.args[2], ret.args[3]).val[1]

\* qj(0, 1, 1/10) has returned a heat on a mixture with external heat
C6_Witness ==
    /\ ret.op = "qj" /\ ret.err = ""
    /\ ret.args = <<RZero, ROne, Rat(1, 10)>>
    /\ objs[1].Qext # RZero
    /\ ret.val[1] # RZero

\* The fuel the constructor stored: the entries of N before O2 and N2
UnreactedFuel(o) == RSum(SubSeq(o.N, 1, Len(o.N) - 2))

\* C7: chi(1, zeta) is zero fuel followed by the amounts burnt_n_i returns;
\* chi(0, zeta) is the unreacted fuel, O2 and N2 times (1 - zeta) plus the
\* burnt amounts times zeta.
C7_ChiEndpoints ==
    (ret.op = "chi" /\ ret.err = "") =>
        LET o    == objs[1]
            zeta == ret.args[2]
            b    == burnt_n_i(o, k_default).obj.burnt_N
        IN  /\ ret.args[1] = ROne =>
                  ret.val = <<RZero>> \o b
            /\ ret.args[1] = RZero =>
                  /\ ret.val[1] = (ROne -- zeta) ** UnreactedFuel(o)
                  /\ \A i \in 1..4 : ret.val[i + 1] = zeta ** b[i]
                  /\ ret.val[6] = (zeta ** b[5]) ++ ((ROne -- zeta) ** DictGet(o.mix, "O2"))
                  /\ ret.val[7] = (zeta ** b[6]) ++ ((ROne -- zeta) ** DictGet(o.mix, "N2"))

\* chi(1, 1/10) has returned a burnt composition
C7_Witness ==
    /\ ret.op = "chi" /\ ret.err = ""
    /\ ret.args = <<ROne, Rat(1, 10)>>
    /\ ret.val[2] # RZero

(***************************************************************************)
(* cycle/crank_rod.py: CrankRod.  Angles are exact rationals in units of   *)
(* pi; numpy.cos and numpy.sin are tabulated at the multiples of pi / 36.  *)
(***************************************************************************)
FPi == <<3142, -3>>
\* cos(k pi / 36), 0 <= k <= 18, to four digits
CosTable ==
    <<Rat(10000, 10000), Rat(9962, 10000), Rat(9848, 10000), Rat(9659, 10000),
      Rat(9397, 10000), Rat(9063, 10000), Rat(8660, 10000), Rat(8192, 10000),
      Rat(7660, 10000), Rat(7071, 10000), Rat(6428, 10000), Rat(5736, 10000),
      Rat(5000, 10000), Rat(4226, 10000), Rat(3420, 10000), Rat(2588, 10000),
      Rat(1736, 10000), Rat(872, 10000), Rat(0, 10000)>>
\* cos(k pi / 36), 0 <= k <= 72
CosStep(k) ==
    IF k <= 18 THEN CosTable[k + 1]
    ELSE IF k <= 36 THEN RNeg(CosTable[(36 - k) + 1])
    ELSE IF k <= 54 THEN RNeg(CosTable[(k - 36) + 1])
    ELSE CosTable[(72 - k) + 1]
OnTable(a) == (a[1] * 36) % a[2] = 0
\* cos(a pi): no value off the table
RCos(a) ==
    CASE OnTable(a) -> CosStep((((a[1] * 36) \div a[2]) % 72))
RSin(a) == RCos(a -- Rat(1, 2))

\* CrankRod.x(alpha), from cos(alpha) and sin(alpha) * R / L
CrankX(R, L, c, s) ==
    FAdd(FMul(R, FSub(FOne, c)),
         FMul(L, FSub(FOne, FSqrt(FSub(FOne, FMul(s, s))))))
\* CrankRod.v(alpha) of the rod of engine E
CrankV(E, alpha) ==
    FAdd(FDiv(FMul(FMul(CrankX(E.r, E.L, FromRat(RCos(alpha)),
                               FDiv(FMul(FromRat(RSin(alpha)), E.r), E.L)),
                        FPi),
                   FMul(E.D, E.D)),
              <<4000, -3>>),
         E.V_2)

(***************************************************************************)
(* cycle/otto.py: Solve.  Arrays are sequences; the entry the source calls *)
(* a[j] is At(a, j).                                                       *)
(***************************************************************************)
MaxIter == 4      \* rows of the loop's history kept behind the current one
At(a, j) == a[j + 1]
Put(a, j, v) == [a EXCEPT ![j + 1] = v]
\* A faulty numpy.zeros(n): one entry more
FZerosLong(n) == [i \in 1..(n + 1) |-> FZero]
FZeros(n) == [i \in 1..n |-> FZero]
FOnes(n) == [i \in 1..n |-> FOne]

\* Solve.__init__, lines 94-99: the branch of the loop that takes j (1, 2 or
\* 3), 0 when none does
AlphaBranch(j, na, nc) ==
    IF 0 <= j /\ j < na THEN 1
    ELSE IF na <= j /\ j <= na + nc THEN 2
    ELSE IF na + nc < j /\ j <= 2 * na + nc THEN 3
    ELSE 0
\* A faulty grid: the combustion branch counts its steps from one
AlphaAtFromOne(j, na, nc, theta, delta) ==
    IF j < na THEN RNeg(ROne) ++ ((RInt(j) ** (theta ++ ROne)) // RInt(na))
    ELSE IF j <= na + nc THEN theta ++ ((RInt((j - na) + 1) ** delta) // RInt(nc))
    ELSE (theta ++ delta) ++ ((RInt((j - na) - nc) ** ((ROne -- theta) -- delta)) // RInt(na))
\* Solve.__init__: alpha[j], for the j of one of the three branches
AlphaAt(j, na, nc, theta, delta) ==
    IF j < na THEN RNeg(ROne) ++ ((RInt(j) ** (theta ++ ROne)) // RInt(na))
    ELSE IF j <= na + nc THEN theta ++ ((RInt(j - na) ** delta) // RInt(nc))
    ELSE (theta ++ delta) ++ ((RInt((j - na) - nc) ** ((ROne -- theta) -- delta)) // RInt(na))
\* Solve.__init__, lines 92-99: numpy.zeros(2 * na + nc + 1), then the loop
\* over range(len(alpha) + 1); an entry no branch takes stays zero
AlphaArray(na, nc, theta, delta) ==
    [i \in 1..(2 * na + nc + 1) |->
        IF AlphaBranch(i - 1, na, nc) = 0 THEN RZero
        ELSE AlphaAt(i - 1, na, nc, theta, delta)] \o <<>>
\* Solve.__init__: Y[j] from alpha[j]
YAt(a, theta, delta) ==
    IF RLt(a, theta) THEN RZero
    ELSE IF RLe(a, theta ++ delta)
         THEN Rat(1, 2) -- (Rat(1, 2) ** RCos((a -- theta) // delta))
         ELSE ROne

\* Solve(engine, na, nc, theta, delta, fuel, prop, phi, p0, t0, e_v, e_w,
\* q_ext), given the OttoMix instance m it constructs
SolveInit(m, E, na, nc, theta, delta, e_v, e_w) ==
    Then(AlphaArray(na, nc, theta, delta), LAMBDA al :
    [pc |-> "idle", op |-> "none", zeta |-> RZero, j |-> 0, k |-> 0,
     n_j |-> <<>>, upper_w |-> <<>>, fresh |-> TRUE, reference |-> FALSE,
     mixed |-> FALSE,
     E |-> E, Na |-> na, Nc |-> nc, theta |-> theta, delta |-> delta,
     alpha |-> al,
     Y |-> [i \in 1..Len(al) |-> YAt(al[i], theta, delta)] \o <<>>,
     P0 |-> FromRat(m.P0), T0 |-> FromRat(m.T0), V0 |-> FromRat(m.V0),
     U0 |-> FromRat(m.U0),
     vol |-> [i \in 1..Len(al) |-> CrankV(E, al[i])] \o <<>>,
     allU |-> FZeros(Len(al)), allT |-> FZeros(Len(al)),
     allP |-> FZeros(Len(al)), allCv |-> FZeros(Len(al)),
     allQ |-> FZeros(Len(al) - 1), trab |-> FZeros(Len(al) - 1),
     eta |-> FZero, rbw |-> FZero, W_liq |-> FZero,
     W_ent |-> FZero, W_sai |-> FZero, Q_ent |-> FZero, Q_sai |-> FZero,
     e_V |-> e_v, e_W |-> e_w])

\* a call that is over: the locals of iterate() are gone
Idle(c) ==
    [c EXCEPT !.pc = "idle", !.op = "none", !.zeta = RZero, !.j = 0, !.k = 0,
              !.n_j = <<>>, !.upper_w = <<>>]

\* nm * ru * T / V, the ideal-gas pressure of lines 202, 213 and 224
IdealP(nm, T, V) == FDiv(FMul(FMul(FromRat(nm), FromRat(Ru)), T), V)

\* Solve.work(p, v0, v1, n0)
work(p, v0, v1, n0) ==
    Then(<<p, v0, v1, n0>>, LAMBDA a :
        FMul(FDiv(a[1], FSub(FOne, a[4])),
             FSub(a[2], FDiv(FPow(a[2], a[4]), FPow(a[3], FSub(a[4], FOne))))))

\* abs(vol[j+1] - vol[j]) < e_V
Isochoric(c, j) == FLt(FAbs(FSub(At(c.vol, j + 1), At(c.vol, j))), c.e_V)

\* A faulty start of prim: the work array is cleared
PrimStartClear(c, op, zeta) ==
    [c EXCEPT !.pc = "prim_cv", !.op = op, !.zeta = zeta, !.j = 0, !.k = 0,
              !.fresh = FALSE,
              !.allT = Put(@, 0, c.T0), !.allP = Put(@, 0, c.P0),
              !.allU = Put(@, 0, c.U0), !.trab = FZeros(Len(@))]
\* Solve.prim, lines 161-163
PrimStart(c, op, zeta) ==
    [c EXCEPT !.pc = "prim_cv", !.op = op, !.zeta = zeta, !.j = 0, !.k = 0,
              !.fresh = FALSE,
              !.allT = Put(@, 0, c.T0), !.allP = Put(@, 0, c.P0),
              !.allU = Put(@, 0, c.U0)]
\* Solve.prim, line 165 for one j
PrimCvStore(c, v) ==
    [c EXCEPT !.allCv = Put(@, c.j, FromRat(v)),
              !.j = IF c.j + 1 = Len(c.allCv) THEN 0 ELSE c.j + 1,
              !.pc = IF c.j + 1 = Len(c.allCv) THEN "prim_q" ELSE "prim_cv"]
\* Solve.prim, line 167 for one j; past the last j prim returns, and
\* iterate goes on with lines 195-196
PrimQStore(c, v) ==
    IF c.j + 1 < Len(c.allQ)
    THEN [c EXCEPT !.allQ = Put(@, c.j, FromRat(v)), !.j = c.j + 1]
    ELSE IF c.op = "prim"
    THEN Idle([c EXCEPT !.allQ = Put(@, c.j, FromRat(v))])
    ELSE [c EXCEPT !.allQ = Put(@, c.j, FromRat(v)), !.j = 0, !.k = 0, !.pc = "step",
                   !.n_j = <<FZeros(2 * c.Na + c.Nc)>>,
                   !.upper_w = <<FOnes(2 * c.Na + c.Nc), FOnes(2 * c.Na + c.Nc)>>]

\* Solve.iterate, lines 200-201
IsoEnergy(c, j) ==
    [c EXCEPT !.allU = Put(@, j + 1, FAdd(At(c.allU, j), At(c.allQ, j))),
              !.allT = Put(@, j + 1, FAdd(FDiv(At(c.allQ, j), At(c.allCv, j)), At(c.allT, j)))]
\* the pressure taken from the temperature before the step
IsoPressureStale(c, j, nm) ==
    [c EXCEPT !.allP = Put(@, j + 1, IdealP(nm, At(c.allT, j), At(c.vol, j + 1))),
              !.trab = Put(@, j, FZero),
              !.j = j + 1]
\* Solve.iterate, lines 202-204, nm the value of nm_j(Y[j+1], zeta)
IsoPressure(c, j, nm) ==
    [c EXCEPT !.allP = Put(@, j + 1, IdealP(nm, At(c.allT, j + 1), At(c.vol, j + 1))),
              !.trab = Put(@, j, FZero),
              !.j = j + 1]

\* Solve.iterate, lines 206-207, cvm the value of cv_m_j(Y[j], zeta)
PolyFirst(c, j, n0) ==
    [c EXCEPT !.n_j = [@ EXCEPT ![1] = Put(@, j, n0)],
              !.upper_w = [@ EXCEPT ![1] = Put(@, j, work(At(c.allP, j), At(c.vol, j),
                                                          At(c.vol, j + 1), n0))],
              !.pc = "loop"]
LoopEnterStore(c, j, cvm) ==
    Then(FAdd(FOne, FDiv(FromRat(Ru), FromRat(cvm))), LAMBDA n0 : PolyFirst(c, j, n0))

\* upper_w[k][j], a negative k counting from the last row as in Python
UpperW(c, k, j) == At(c.upper_w[IF k < 0 THEN Len(c.upper_w) + 1 + k ELSE k + 1], j)
\* A faulty loop condition: one pass, whatever the estimates
LoopCondOnce(c) == c.k = 0
\* the condition of the while loop of line 208
LoopCond(c) ==
    FLt(c.e_W, FAbs(FSub(UpperW(c, c.k - 1, c.j), UpperW(c, c.k, c.j)))) \/ c.k = 0

\* A faulty energy update: the heat of the step left out
PolyEnergyNoHeat(c, j, w) ==
    Then(FAdd(At(c.allU, j), w), LAMBDA u :
        [c EXCEPT !.allU = Put(@, j + 1, u),
                  !.allT = Put(@, j + 1, FDiv(u, At(c.allCv, j + 1)))])
\* Solve.iterate, lines 209-212 and 222-223: U[j+1] and T[j+1] from the
\* work estimate w
PolyEnergy(c, j, w) ==
    Then(FAdd(FAdd(At(c.allU, j), At(c.allQ, j)), w), LAMBDA u :
        [c EXCEPT !.allU = Put(@, j + 1, u),
                  !.allT = Put(@, j + 1, FDiv(u, At(c.allCv, j + 1)))])
\* A faulty pass: n_j is not grown before its row k + 1 is written
LoopEnergyNoGrow(c) == PolyEnergy(c, c.j, UpperW(c, c.k, c.j))
\* lines 209-212 of one pass of the loop
LoopEnergy(c) ==
    Then([c EXCEPT !.n_j = IF c.k + 1 > Len(@) - 1
                           THEN Append(@, FZeros(2 * c.Na + c.Nc)) ELSE @],
         LAMBDA g : PolyEnergy(g, g.j, UpperW(g, g.k, g.j)))
\* lines 222-223 past the loop
ExitEnergy(c) == PolyEnergy(c, c.j, UpperW(c, c.k, c.j))
\* lines 213-214
LoopPressure(c, nm) ==
    [c EXCEPT !.allP = Put(@, c.j + 1,
                           IdealP(nm, At(c.allT, c.j + 1), At(c.vol, c.j + 1)))]
\* lines 215-220, n the new exponent
LoopWork(c, n) ==
    [c EXCEPT !.n_j = [@ EXCEPT ![c.k + 2] = Put(@, c.j, n)],
              !.k = c.k + 1,
              !.upper_w =
                  Then([@ EXCEPT ![c.k + 2] =
                           Put(@, c.j, work(At(c.allP, c.j), At(c.vol, c.j),
                                            At(c.vol, c.j + 1), n))],
                       LAMBDA w : IF (c.k + 1) + 1 > Len(w) - 1
                                  THEN Append(w, FZeros(2 * c.Na + c.Nc)) ELSE w)]
\* The rows of n_j and upper_w more than MaxIter passes old are dropped: the
\* loop reads rows k - 1 and k and writes rows k + 1 and k + 2 only, so k is
\* then the distance of the current row from the oldest row kept
Forget(c) ==
    IF c.k > MaxIter
    THEN [c EXCEPT !.k = @ - 1, !.n_j = Tail(@), !.upper_w = Tail(@)]
    ELSE c
\* lines 215-216: the exception math.log or the division raises, "" for none
LogError(pr, vr) ==
    IF pr[1] <= 0 THEN "ValueError"
    ELSE IF FLn(vr)[1] = 0 THEN "ZeroDivisionError" ELSE ""
\* A faulty end of a step: j is left where it was, and the step is solved
\* again
LoopExitStoreStay(c, nm) ==
    [c EXCEPT !.allP = Put(@, c.j + 1,
                           IdealP(nm, At(c.allT, c.j + 1), At(c.vol, c.j + 1))),
              !.trab = Put(@, c.j, UpperW(c, c.k, c.j)),
              !.k = 0, !.pc = "step"]
\* lines 222-226, nm the value of nm_j(Y[j], zeta)
LoopExitStore(c, nm) ==
    [c EXCEPT !.allP = Put(@, c.j + 1,
                           IdealP(nm, At(c.allT, c.j + 1), At(c.vol, c.j + 1))),
              !.trab = Put(@, c.j, UpperW(c, c.k, c.j)),
              !.j = c.j + 1, !.k = 0, !.pc = "step"]

\* numpy's a / b: inf, -inf or nan, with a warning, when b is zero
FInf == <<1, 0>>
FNegInf == <<-1, 0>>
FNaN == <<2, 0>>
DivNp(a, b) ==
    Then(<<a, b>>, LAMBDA p :
        IF p[2][1] # 0 THEN FDiv(p[1], p[2])
        ELSE IF p[1][1] > 0 THEN FInf ELSE IF p[1][1] < 0 THEN FNegInf ELSE FNaN)

\* Solve.results, lines 242-255: the entries >= 0 added up from acc, and the
\* entries < 0 added up with the sign flipped
RECURSIVE AccIn(_, _, _)
AccIn(a, i, acc) ==
    IF i > Len(a) THEN acc
    ELSE AccIn(a, i + 1, IF a[i][1] >= 0 THEN FAdd(acc, a[i]) ELSE acc)
RECURSIVE AccOut(_, _, _)
AccOut(a, i, acc) ==
    IF i > Len(a) THEN acc
    ELSE AccOut(a, i + 1, IF a[i][1] < 0 THEN FAdd(acc, FNeg(a[i])) ELSE acc)
\* lines 257-263
\* the net work taken as work-in less work-out
TotalsInverted(c, w_ent, w_sai, q_ent, q_sai) ==
    [c EXCEPT !.W_ent = w_ent, !.W_sai = w_sai, !.Q_ent = q_ent, !.Q_sai = q_sai,
              !.W_liq = FSub(w_ent, w_sai),
              !.eta = DivNp(FSub(w_ent, w_sai), q_ent),
              !.rbw = DivNp(w_ent, w_sai)]
Totals(c, w_ent, w_sai, q_ent, q_sai) ==
    [c EXCEPT !.W_ent = w_ent, !.W_sai = w_sai, !.Q_ent = q_ent, !.Q_sai = q_sai,
              !.W_liq = FSub(w_sai, w_ent),
              !.eta = DivNp(FSub(w_sai, w_ent), q_ent),
              !.rbw = DivNp(w_ent, w_sai)]
\* the sums carried over from the call before instead of starting at 0.0
AggregateCarried(c) ==
    Then(<<AccIn(c.trab, 1, c.W_ent), AccOut(c.trab, 1, c.W_sai),
           AccIn(c.allQ, 1, c.Q_ent), AccOut(c.allQ, 1, c.Q_sai)>>,
         LAMBDA t : Totals(c, t[1], t[2], t[3], t[4]))
Aggregate(c) ==
    Then(<<AccIn(c.trab, 1, FZero), AccOut(c.trab, 1, FZero),
           AccIn(c.allQ, 1, FZero), AccOut(c.allQ, 1, FZero)>>,
         LAMBDA t : Totals(c, t[1], t[2], t[3], t[4]))

(***************************************************************************)
(* SpecCycle: one Solve instance in its process.  Before it, one Solve     *)
(* with the same inputs is constructed per zeta, each in a process of its  *)
(* own, and results(zeta) is called on it once: ref keeps what it returned *)
(* and left in the arrays.                                                 *)
(***************************************************************************)
MaxNa == 1        \* compression and expansion steps
MaxNc == 2        \* combustion steps

CycleZetas == <<RZero, Rat(1, 10)>>

\* A cylinder of 126.8 l at bottom dead centre: bore 0.5257 m, crank radius
\* 0.2629 m, rod 0.7886 m, clearance 12.68 l; V_1 is the volume of the charge
Engine(fuel, phi) ==
    [D |-> <<5257, -4>>, r |-> <<2629, -4>>, L |-> <<7886, -4>>, V_2 |-> <<1268, -5>>,
     V_1 |-> Volume(fuel, phi)]

EvSmall == <<1000, -11>>     \* e_v = 1.0e-8
EvWide == <<1000, -3>>       \* e_v = 1.0: every step is isochoric
EwCoarse == <<1000, -3>>     \* e_w = 1.0
EwFine == <<1000, -11>>      \* e_w = 1.0e-8
EwZero == <<0, 0>>           \* e_w = 0.0: the loop ends on two equal estimates

\* The engine runs the model follows
CycleBase ==
    [fuel |-> <<"C2H6O">>, props |-> <<ROne>>, phi |-> ROne, q_ext |-> RZero,
     theta |-> Rat(-1, 6), delta |-> Rat(1, 3), e_v |-> EvSmall, e_w |-> EwCoarse]
CycleVariants ==
    {CycleBase,
     [CycleBase EXCEPT !.q_ext = RInt(-2950)],
     [CycleBase EXCEPT !.e_v = EvWide],
     [CycleBase EXCEPT !.e_w = EwFine],
     [CycleBase EXCEPT !.e_w = EwZero]}
CycleInputs ==
    {[in |-> v, na |-> na, nc |-> nc] :
        v \in CycleVariants, na \in 1..MaxNa, nc \in 1..MaxNc}

\* Solve(...) with the inputs i in a new process: the class dictionary, the
\* mixture and the Solve instance
NewProcess(i, reference) ==
    Then(OttoMixInit(<<>>, i.in.fuel, i.in.props, i.in.phi, Pressao, Temperatura,
                     Volume(i.in.fuel, i.in.phi), i.in.q_ext),
         LAMBDA r :
             [Xis |-> r.Xis, obj |-> r.obj,
              cyc |-> [inputs |-> i, reference |-> reference]
                      @@ SolveInit(r.obj, Engine(i.in.fuel, i.in.phi), i.na, i.nc,
                                   i.in.theta, i.in.delta, i.in.e_v, i.in.e_w)])

InitCycle ==
    \E i \in CycleInputs : \E p \in {NewProcess(i, TRUE)} :
        /\ Xis = p.Xis
        /\ objs = <<p.obj>>
        /\ cyc = p.cyc
        /\ ret = NoRet
        /\ ref = <<>>
        /\ tick = FALSE
        /\ eng = NoEng

\* The zeta of the reference run that is due, while one is
RefDue == Len(ref) < Len(CycleZetas)

\* A new Solve with the same inputs in a new process, after a reference run
NewSolve ==
    /\ cyc.pc = "idle" /\ cyc.reference /\ ~cyc.fresh
    /\ \E p \in {NewProcess(cyc.inputs, RefDue)} :
           /\ Xis' = p.Xis
           /\ objs' = <<p.obj>>
           /\ cyc' = p.cyc
    /\ ret' = NoRet
    /\ UNCHANGED <<ref, tick, eng>>

\* The mixture operation r has returned inside a call: the call goes on as
\* Go(value), or ends with the exception r raised, the arrays left as in c
Raised(c, err) == [op |-> c.op, who |-> 1, args |-> <<c.zeta>>, err |-> err, val |-> <<>>]
MixStep(r, c, Go(_)) ==
    \E m \in {r} :
        /\ objs' = <<m.obj>>
        /\ Xis' = m.Xis
        /\ IF m.err = ""
           THEN \E g \in {Go(m.val[1])} :
                    /\ cyc' = g
                    /\ ret' = IF g.pc = "idle"
                              THEN [op |-> c.op, who |-> 1, args |-> <<c.zeta>>, err |-> "",
                                    val |-> <<g.allCv, g.allQ>>]
                              ELSE ret
           ELSE /\ cyc' = Idle(c)
                /\ ret' = Raised(c, m.err)
        /\ tick' = ~tick
        /\ UNCHANGED <<ref, eng>>

\* The call op(z) starts; mixed records that an earlier call on the instance
\* had another zeta
Call(op, z) ==
    /\ cyc' = [PrimStart(cyc, op, z) EXCEPT
                  !.mixed = @ \/ (ret.op # "none" /\ ret.args # <<z>>)]
    /\ tick' = FALSE
    /\ UNCHANGED <<Xis, objs, ret, ref, eng>>
\* prim(zeta) is called
CallPrim ==
    \E z \in {CycleZetas[n] : n \in 1..Len(CycleZetas)} :
        /\ cyc.pc = "idle" /\ ~cyc.reference
        /\ Call("prim", z)
\* iterate(zeta) is called
CallIterate ==
    \E z \in {CycleZetas[n] : n \in 1..Len(CycleZetas)} :
        /\ cyc.pc = "idle" /\ ~cyc.reference
        /\ Call("iterate", z)
\* results(zeta) is called: on a reference instance once, with the zeta due
CallResults ==
    \E z \in {CycleZetas[n] : n \in 1..Len(CycleZetas)} :
        /\ cyc.pc = "idle"
        /\ cyc.reference => (cyc.fresh /\ z = CycleZetas[Len(ref) + 1])
        /\ Call("results", z)

\* prim: allCv[j] = upper_cv_j(Y[j], zeta)
PrimCv ==
    /\ cyc.pc = "prim_cv"
    /\ MixStep(upper_cv_j(Xis, objs[1], At(cyc.Y, cyc.j), cyc.zeta), cyc,
               LAMBDA v : PrimCvStore(cyc, v))
\* prim: allQ[j] = qj(Y[j], Y[j+1], zeta)
PrimQ ==
    /\ cyc.pc = "prim_q"
    /\ MixStep(qj(Xis, objs[1], At(cyc.Y, cyc.j), At(cyc.Y, cyc.j + 1), cyc.zeta), cyc,
               LAMBDA v : PrimQStore(cyc, v))

\* iterate: the isochoric branch of step j
StepIsochoric ==
    /\ cyc.pc = "step" /\ cyc.j < Len(cyc.allQ)
    /\ Isochoric(cyc, cyc.j)
    /\ \E c \in {IsoEnergy(cyc, cyc.j)} :
           MixStep(nm_j(Xis, objs[1], At(cyc.Y, cyc.j + 1), cyc.zeta), c,
                   LAMBDA nm : IsoPressure(c, cyc.j, nm))
\* iterate: the polytropic branch of step j, up to the while loop
LoopEnter ==
    /\ cyc.pc = "step" /\ cyc.j < Len(cyc.allQ)
    /\ ~Isochoric(cyc, cyc.j)
    /\ MixStep(cv_m_j(Xis, objs[1], At(cyc.Y, cyc.j), cyc.zeta), cyc,
               LAMBDA cvm : LoopEnterStore(cyc, cyc.j, cvm))

\* The ratios of lines 215-216, in the state c past line 214
PRatio(c) == FDiv(At(c.allP, c.j + 1), At(c.allP, c.j))
VRatio(c) == FDiv(At(c.vol, c.j), At(c.vol, c.j + 1))
\* iterate: one pass of the while loop, past nm_j
LoopPass(c) ==
    \E e \in {LogError(PRatio(c), VRatio(c))} :
        IF e # ""
        THEN /\ cyc' = Idle(c)
             /\ ret' = Raised(c, e)
        ELSE /\ \E n \in {FDiv(FLn(PRatio(c)), FLn(VRatio(c)))} :
                \E w \in {LoopWork(c, n)} : cyc' = Forget(w)
             /\ ret' = ret
LoopIter ==
    /\ cyc.pc = "loop" /\ LoopCond(cyc)
    /\ \E c \in {LoopEnergy(cyc)} :
       \E r \in {nm_j(Xis, objs[1], At(cyc.Y, cyc.j + 1), cyc.zeta)} :
           /\ objs' = <<r.obj>>
           /\ Xis' = r.Xis
           /\ IF r.err # ""
              THEN /\ cyc' = Idle(c)
                   /\ ret' = Raised(c, r.err)
              ELSE \E p \in {LoopPressure(c, r.val[1])} : LoopPass(p)
    /\ tick' = ~tick
    /\ UNCHANGED <<ref, eng>>
\* iterate: the while loop is left, lines 222-226
LoopExit ==
    /\ cyc.pc = "loop" /\ ~LoopCond(cyc)
    /\ \E c \in {ExitEnergy(cyc)} :
           MixStep(nm_j(Xis, objs[1], At(cyc.Y, cyc.j), cyc.zeta), c,
                   LAMBDA nm : LoopExitStore(c, nm))

\* iterate returns allP
IterateReturn ==
    /\ cyc.pc = "step" /\ cyc.j = Len(cyc.allQ) /\ cyc.op = "iterate"
    /\ cyc' = Idle(cyc)
    /\ ret' = [op |-> "iterate", who |-> 1, args |-> <<cyc.zeta>>, err |-> "",
               val |-> cyc.allP]
    /\ tick' = ~tick
    /\ UNCHANGED <<Xis, objs, ref, eng>>
\* What a results(zeta) call returned and left in the arrays
Outcome(zeta, c) ==
    [zeta |-> zeta, val |-> <<c.eta, c.W_liq, c.rbw>>,
     allP |-> c.allP, allT |-> c.allT, allU |-> c.allU, allCv |-> c.allCv,
     allQ |-> c.allQ, trab |-> c.trab]
\* results: iterate has returned, lines 242-264
ResultsReturn ==
    /\ cyc.pc = "step" /\ cyc.j = Len(cyc.allQ) /\ cyc.op = "results"
    /\ \E c \in {Aggregate(cyc)} :
           /\ cyc' = Idle(c)
           /\ ret' = [op |-> "results", who |-> 1, args |-> <<cyc.zeta>>, err |-> "",
                      val |-> <<c.eta, c.W_liq, c.rbw>>]
           /\ ref' = IF cyc.reference THEN Append(ref, Outcome(cyc.zeta, c)) ELSE ref
    /\ tick' = ~tick
    /\ UNCHANGED <<Xis, objs, eng>>

\* The steps of a call that is under way
Run ==
    PrimCv \/ PrimQ \/ StepIsochoric \/ LoopEnter \/ LoopIter \/ LoopExit
    \/ IterateReturn \/ ResultsReturn
NextCycle == NewSolve \/ CallPrim \/ CallIterate \/ CallResults \/ Run

SpecCycle == InitCycle /\ [][NextCycle]_vars
\* A step of the call that is under way: in every state with a call under
\* way one of the steps of Run can be taken, and only they flip tick
Running == cyc.pc # "idle" /\ tick' = ~tick
\* A call that is under way goes on: the interpreter runs its next statement
SpecCycleFair == SpecCycle /\ WF_tick(Running)

\* C2: results(z0) on an instance that has served any sequence of prim,
\* iterate and results calls returns the triple, and leaves the pressure,
\* temperature, energy, specific-heat, heat and work arrays, that results(z0)
\* returned and left as the first call on a new instance with the same inputs
C2_ResultsHistoryFree ==
    (cyc.pc = "idle" /\ ~cyc.reference /\ ret.op = "results") =>
        \E n \in 1..Len(ref) :
            /\ <<ref[n].zeta>> = ret.args
            /\ ret.err = ""
            /\ Outcome(ref[n].zeta, cyc) = ref[n]
            /\ ret.val = ref[n].val

\* results(1/10) has returned on an instance after a call with another zeta
C2_Witness ==
    /\ cyc.pc = "idle" /\ ~cyc.reference /\ cyc.mixed
    /\ ret.op = "results" /\ ret.err = "" /\ ret.args = <<Rat(1, 10)>>
    /\ ret.val[2][1] > 0

\* C8: while iterate runs, the while loop is never entered for a step j with
\* |V[j+1] - V[j]| < e_v; for every such step already taken no polytropic
\* exponent and no work estimate was ever computed, the work recorded is
\* exactly 0.0, and P[j+1] is n(y[j+1]) * Ru * T[j+1] / V[j+1]
C8_IsochoricStep ==
    /\ cyc.pc = "loop" => ~Isochoric(cyc, cyc.j)
    /\ cyc.pc \in {"step", "loop"} =>
           \A i \in 0..(cyc.j - 1) :
               Isochoric(cyc, i) =>
                   /\ At(cyc.trab, i) = FZero
                   /\ \A r \in 1..Len(cyc.n_j) : At(cyc.n_j[r], i) = FZero
                   /\ \A r \in 1..Len(cyc.upper_w) : At(cyc.upper_w[r], i) \in {FOne, FZero}
                   /\ At(cyc.allP, i + 1) =
                          IdealP(nm_j(Xis, objs[1], At(cyc.Y, i + 1), cyc.zeta).val[1],
                                 At(cyc.allT, i + 1), At(cyc.vol, i + 1))

\* the combustion step of a three-step cycle was taken at constant volume,
\* with heat added, after a compression step that was not
C8_Witness ==
    /\ cyc.pc = "step" /\ cyc.j = 2
    /\ Isochoric(cyc, 1) /\ ~Isochoric(cyc, 0)
    /\ At(cyc.allQ, 1)[1] > 0
    /\ FLt(At(cyc.allT, 1), At(cyc.allT, 2))
    /\ cyc.zeta = Rat(1, 10)

\* The entries of a that are >= 0, and the entries < 0 with the sign flipped,
\* the others 0.0; the sum of a from left to right
PosPart(a) == [i \in 1..Len(a) |-> IF a[i][1] >= 0 THEN a[i] ELSE FZero]
NegPart(a) == [i \in 1..Len(a) |-> IF a[i][1] < 0 THEN FNeg(a[i]) ELSE FZero]
RECURSIVE FSumTo(_, _)
FSumTo(a, n) == IF n = 0 THEN FZero ELSE FAdd(FSumTo(a, n - 1), a[n])

\* C10: when results returns, work-in is the sum of the step works >= 0 and
\* work-out the sum of the step works < 0 with the sign flipped, heat-in and
\* heat-out likewise from the step heats, so each step counts in exactly one
\* sum and the four sums are >= 0; the net work is work-out - work-in, which
\* is the negated sum of the step works up to rounding; the triple returned
\* is (net work / heat-in, net work, work-in / work-out), the quotients as
\* numpy divides
C10_ResultsPartition ==
    (cyc.pc = "idle" /\ ret.op = "results" /\ ret.err = "") =>
        /\ cyc.W_ent = FSumTo(PosPart(cyc.trab), Len(cyc.trab))
        /\ cyc.W_sai = FSumTo(NegPart(cyc.trab), Len(cyc.trab))
        /\ cyc.Q_ent = FSumTo(PosPart(cyc.allQ), Len(cyc.allQ))
        /\ cyc.Q_sai = FSumTo(NegPart(cyc.allQ), Len(cyc.allQ))
        /\ \A i \in 1..Len(cyc.trab) :
               /\ (PosPart(cyc.trab)[i] = FZero) \/ (NegPart(cyc.trab)[i] = FZero)
               /\ FAbs(cyc.trab[i]) = FAdd(PosPart(cyc.trab)[i], NegPart(cyc.trab)[i])
               /\ (PosPart(cyc.allQ)[i] = FZero) \/ (NegPart(cyc.allQ)[i] = FZero)
               /\ FAbs(cyc.allQ[i]) = FAdd(PosPart(cyc.allQ)[i], NegPart(cyc.allQ)[i])
        /\ cyc.W_ent[1] >= 0 /\ cyc.W_sai[1] >= 0
        /\ cyc.Q_ent[1] >= 0 /\ cyc.Q_sai[1] >= 0
        /\ cyc.W_liq = FSub(cyc.W_sai, cyc.W_ent)
        /\ FLe(FAbs(FAdd(cyc.W_liq, FSumTo(cyc.trab, Len(cyc.trab)))),
               FMul(<<1000, -5>>, FAdd(cyc.W_ent, cyc.W_sai)))
        /\ ret.val = <<DivNp(cyc.W_liq, cyc.Q_ent), cyc.W_liq,
                       DivNp(cyc.W_ent, cyc.W_sai)>>

\* results has returned for a cycle of four steps with work in, work out and
\* heat in, and a positive net work
C10_Witness ==
    /\ cyc.pc = "idle" /\ ret.op = "results" /\ ret.err = ""
    /\ Len(cyc.trab) = 4
    /\ cyc.W_ent[1] > 0 /\ cyc.W_sai[1] > 0 /\ cyc.Q_ent[1] > 0
    /\ ret.val[2][1] > 0
    /\ ret.val[1] = FDiv(cyc.W_liq, cyc.Q_ent)

\* C9: whenever iterate is in the while loop of a step, the loop is left
\* later on: the step is finished or the call ends
C9_LoopTerminates == (cyc.pc = "loop") ~> (cyc.pc # "loop")


(***************************************************************************)
(* cycle/alt_eng.py: solver(eng, eps).  The dictionary eng is a function   *)
(* from its keys to rationals or None.  The keys of the model's            *)
(* dictionaries are V_1, V_2, V_du, z, V_d and r_v: of the relations of    *)
(* rel, V_du[0], V_d[0], r_v[0] and r_v[1] have all their symbols among    *)
(* these keys, and every other relation keeps two unknown symbols at least *)
(* whatever is solved, so that it is neither tested nor used.              *)
(***************************************************************************)
\* the value None of a key: no rational has the denominator 0
None == <<0, 0>>
\* rel, in the order of its keys: the relations and their free symbols
rel ==
    << [key |-> "V_du", j |-> 0, free |-> {"V_du", "V_1", "V_2"}],
       [key |-> "V_d", j |-> 0, free |-> {"V_d", "z", "V_du"}],
       [key |-> "r_v", j |-> 0, free |-> {"r_v", "V_1", "V_2"}],
       [key |-> "r_v", j |-> 1, free |-> {"r_v", "V_du", "V_2"}] >>

\* known(): the keys of d with a value
known(d) == {i \in DOMAIN d : d[i] # None}

\* the left and the right side of relation i with the values of d put in
RelLhs(i, d) == d[rel[i].key]
RelRhs(i, d) ==
    CASE i = 1 -> d["V_1"] -- d["V_2"]
      [] i = 2 -> d["z"] ** d["V_du"]
      [] i = 3 -> d["V_1"] // d["V_2"]
      [] i = 4 -> (d["V_du"] // d["V_2"]) ++ ROne

\* evalf(6): q to six significant digits, for 0.0001 <= |q| < 1000000
Evalf6(q) ==
    IF q[1] = 0 THEN RZero
    ELSE LET a == Abs(q[1])
             k == CHOOSE k \in 0..7 :
                      /\ (a * Pow10(k)) \div q[2] >= 100000 \/ k = 7
                      /\ k = 0 \/ (a * Pow10(k - 1)) \div q[2] < 100000
         IN  Rat(Sign(q[1]) * ((2 * a * Pow10(k) + q[2]) \div (2 * q[2])), Pow10(k))

\* redund(): the relations with no unknown symbol
redund(d) == SelectSeq([i \in 1..Len(rel) |-> i], LAMBDA i : rel[i].free \ known(d) = {})

\* line 237: the test of one redundant relation fails
RedundFails(i, d, eps) == ~RLt(Evalf6(RelLhs(i, d) -- RelRhs(i, d)), eps)

\* A faulty scan of the table: the first relation of every key only
MkURelFirst(d) ==
    LET one == SelectSeq([i \in 1..Len(rel) |-> i],
                         LAMBDA i : rel[i].j = 0 /\ Cardinality(rel[i].free \ known(d)) = 1)
    IN  [n \in 1..Len(one) |-> <<one[n], CHOOSE s \in rel[one[n]].free \ known(d) : TRUE>>]
\* mk_u_rel(): the relations with one unknown symbol, each with that symbol
mk_u_rel(d) ==
    LET one == SelectSeq([i \in 1..Len(rel) |-> i],
                         LAMBDA i : Cardinality(rel[i].free \ known(d)) = 1)
    IN  [n \in 1..Len(one) |-> <<one[n], CHOOSE s \in rel[one[n]].free \ known(d) : TRUE>>]

\* sympy.solve of relation i for its one unknown symbol s: the list of the
\* solutions
SympySolve(i, s, d) ==
    CASE i = 1 /\ s = "V_du" -> <<d["V_1"] -- d["V_2"]>>
      [] i = 1 /\ s = "V_1" -> <<d["V_du"] ++ d["V_2"]>>
      [] i = 1 /\ s = "V_2" -> <<d["V_1"] -- d["V_du"]>>
      [] i = 2 /\ s = "V_d" -> <<d["z"] ** d["V_du"]>>
      [] i = 2 /\ s = "z" ->
            IF d["V_du"] = RZero THEN <<>> ELSE <<d["V_d"] // d["V_du"]>>
      [] i = 2 /\ s = "V_du" ->
            IF d["z"] = RZero THEN <<>> ELSE <<d["V_d"] // d["z"]>>
      [] i = 3 /\ s = "r_v" -> <<d["V_1"] // d["V_2"]>>
      [] i = 3 /\ s = "V_1" -> <<d["r_v"] ** d["V_2"]>>
      [] i = 3 /\ s = "V_2" ->
            IF d["r_v"] = RZero \/ d["V_1"] = RZero THEN <<>>
            ELSE <<d["V_1"] // d["r_v"]>>
      [] i = 4 /\ s = "r_v" -> <<(d["V_du"] // d["V_2"]) ++ ROne>>
      [] i = 4 /\ s = "V_du" -> <<(d["r_v"] -- ROne) ** d["V_2"]>>
      [] i = 4 /\ s = "V_2" ->
            IF d["r_v"] = ROne \/ d["V_du"] = RZero THEN <<>>
            ELSE <<d["V_du"] // (d["r_v"] -- ROne)>>

\* eng[key] = value
EngSet(d, key, v) == [i \in DOMAIN d \cup {key} |-> IF i = key THEN v ELSE d[i]]

\* lines 243-256: the for loop over u_rel from its n-th entry on; a list of
\* solutions that is empty ends the call with an error (line 256)
RECURSIVE SolverFor(_, _, _)
SolverFor(u_rel, n, e) ==
    IF n > Len(u_rel) \/ e.pc = "raised" THEN e
    ELSE IF u_rel[n][2] \in known(e.d) THEN SolverFor(u_rel, n + 1, e)
    ELSE LET sols == SympySolve(u_rel[n][1], u_rel[n][2], e.d)
         IN  IF Len(sols) = 1
             THEN SolverFor(u_rel, n + 1, [e EXCEPT !.d = EngSet(@, u_rel[n][2], sols[1])])
             ELSE [e EXCEPT !.pc = "raised"]

\* lines 224-240: the preliminary tests and the test of the redundant
\* relations, on a call solver(arg, eps)
SolverEnter(arg, eps) ==
    LET e == [pc |-> "return", arg |-> arg, eps |-> eps, d |-> arg.d,
              status |-> "None", u_rel |-> <<>>]
    IN  IF arg.kind # "dict" THEN e
        ELSE IF Cardinality(DOMAIN arg.d) = 0 THEN e
        ELSE IF \E n \in 1..Len(redund(arg.d)) : RedundFails(redund(arg.d)[n], arg.d, eps)
             THEN [e EXCEPT !.status = "False"]
             ELSE [e EXCEPT !.pc = "while", !.u_rel = mk_u_rel(arg.d)]

(***************************************************************************)
(* SpecEng: one process that calls solver(eng, eps) once, on a dictionary  *)
(* of some of the six keys or on a list.                                   *)
(***************************************************************************)
EngKeys == {"V_1", "V_2", "V_du", "z", "V_d", "r_v"}
\* the values a key is given: volumes with V_1 > V_2 and V_1 > V_du
EngValues(key) ==
    CASE key = "V_1" -> {RInt(3), RInt(4)}
      [] key = "V_2" -> {RInt(1), RInt(2)}
      [] key = "V_du" -> {RInt(1), RInt(2)}
      [] key = "z" -> {RInt(1), RInt(2)}
      [] key = "V_d" -> {RInt(1), RInt(2)}
      [] key = "r_v" -> {RInt(2), RInt(3)}
EngDicts ==
    UNION {{d \in [S -> {None} \cup UNION {EngValues(key) : key \in EngKeys}] :
               \A key \in S : d[key] \in EngValues(key) \cup {None}} :
           S \in SUBSET EngKeys}
EngArgs == {[kind |-> "dict", d |-> d] : d \in EngDicts} \cup {[kind |-> "list", d |-> <<>>]}
EpsSet == {Rat(1, 1000000), ROne}

\* solver(arg, eps) is called
SolverCall ==
    /\ eng.pc = "none"
    /\ \E arg \in EngArgs, eps \in EpsSet : eng' = SolverEnter(arg, eps)
    /\ UNCHANGED <<Xis, objs, ret, cyc, ref, tick>>

\* lines 242-257: one pass of the while loop
SolverWhile ==
    /\ eng.pc = "while" /\ Len(eng.u_rel) # 0
    /\ \E e \in {SolverFor(eng.u_rel, 1, eng)} :
           eng' = IF e.pc = "raised" THEN e ELSE [e EXCEPT !.u_rel = mk_u_rel(e.d)]
    /\ UNCHANGED <<Xis, objs, ret, cyc, ref, tick>>

\* line 258: return eng, True
SolverReturn ==
    /\ eng.pc = "while" /\ Len(eng.u_rel) = 0
    /\ eng' = [eng EXCEPT !.pc = "return", !.status = "True"]
    /\ UNCHANGED <<Xis, objs, ret, cyc, ref, tick>>

NextEng == SolverCall \/ SolverWhile \/ SolverReturn

SpecEng == Init /\ [][NextEng]_vars

\* some relation all of whose symbols have a value in d has sides that differ
\* by eps or more in absolute value
Conflict(d, eps) ==
    \E i \in 1..Len(rel) :
        /\ rel[i].free \subseteq known(d)
        /\ RLe(eps, RAbs(RelLhs(i, d) -- RelRhs(i, d)))

\* C11: when solver(arg, eps) has returned, the status is None exactly when
\* arg is not a dictionary or is empty, False exactly when some relation with
\* all its symbols known in arg has sides that differ by eps or more in
\* absolute value, True otherwise; with None or False the dictionary is as
\* it was passed
C11_SolverStatus ==
    eng.pc = "return" =>
        LET invalid == eng.arg.kind # "dict" \/ DOMAIN eng.arg.d = {}
            conflict == ~invalid /\ Conflict(eng.arg.d, eng.eps)
        IN  /\ (eng.status = "None") <=> invalid
            /\ (eng.status = "False") <=> conflict
            /\ (eng.status = "True") <=> (~invalid /\ ~conflict)
            /\ eng.status \in {"None", "False"} => eng.d = eng.arg.d

(***************************************************************************)
(* SpecBurnt: one OttoMix constructed first in its process; burnt_n_i(k)   *)
(* is called with the default k or another one, between calls of chi and   *)
(* qj.                                                                     *)
(***************************************************************************)
KSet == {k_default, Rat(1, 2), RInt(-1)}

\* objs[1].burnt_n_i(k)
BurntNIWith ==
    \E k \in KSet :
        \E b \in {burnt_n_i(objs[1], k)} :
            Apply("burnt_n_i", 1, <<k>>,
                  Result(b.err, b.obj, Xis, IF b.err = "" THEN b.obj.burnt_N ELSE <<>>))

NextBurnt == BurntNIWith \/ MixChi \/ MixQj

SpecBurnt == InitMix /\ [][NextBurnt]_vars

\* C12: a call burnt_n_i(k) of a rich mixture (phi > 1) whose discriminant
\* b^2 - 4ac is negative ends with an error, returns nothing and leaves the
\* instance and the class dictionary as they were: no burnt amount is stored
C12_NegativeDiscAborts ==
    [][(/\ ret'.op = "burnt_n_i"
        /\ ~RLe(objs[1].phi, ROne)
        /\ QuadDisc(objs[1], ret'.args[1])[1] < 0)
       => (/\ ret'.err # ""
           /\ ret'.val = <<>>
           /\ objs' = objs
           /\ Xis' = Xis)]_vars

\* burnt_n_i(k) has failed on a negative discriminant of a rich mixture that
\* holds the amounts of an earlier call
C12_Witness ==
    /\ ret.op = "burnt_n_i" /\ ret.err = "ValueError"
    /\ ~RLe(objs[1].phi, ROne)
    /\ QuadDisc(objs[1], ret.args[1])[1] < 0
    /\ objs[1].burnt_N # <<>>
    /\ objs[1].nCO[1] > 0

(***************************************************************************)
(* SpecChem: one process that constructs ChemMix and OttoMix instances     *)
(* from arguments of any kind (a list, a tuple or a string) and calls      *)
(* frac_molar() on them.                                                   *)
(***************************************************************************)
\* an argument: its Python type and, for a list or a tuple, its items
Arg(kind, items) == [kind |-> kind, items |-> items]
Kinds == {"list", "tuple"}
SpeciesArgs ==
    {Arg(kind, f) : kind \in Kinds, f \in UNION {[1..n -> FuelNames] : n \in 1..MaxFuels}}
    \cup {Arg("str", <<>>)}
\* mole amounts: not negative, not all zero
MoleArgs ==
    {Arg(kind, n) : kind \in Kinds,
                    n \in {m \in UNION {[1..l -> {RZero, ROne}] : l \in 1..MaxFuels} :
                              \E i \in DOMAIN m : m[i] # RZero}}
    \cup {Arg("str", <<>>)}
OttoFuelArgs ==
    {Arg(kind, f) : kind \in Kinds, f \in {<<"CH4">>, <<"CH4", "C2H6O">>}} \cup {Arg("str", <<>>)}
OttoPropArgs ==
    {Arg(kind, n) : kind \in Kinds, n \in {<<ROne>>, <<ROne, ROne>>}} \cup {Arg("str", <<>>)}

\* ChemMix.__init__, lines 81-84: the error raised on the arguments, if any
ChemMixRaises(species, n) ==
    IF species.kind = "str" \/ n.kind = "str" THEN "TypeError"
    ELSE IF Len(species.items) # Len(n.items) THEN "IndexError"
    ELSE ""

\* {species[i]: n[i] for i in range(len(species))}: a key met again keeps
\* its place and takes the later value
RECURSIVE DictOf(_, _, _)
DictOf(ks, vs, i) ==
    IF i = 0 THEN <<>> ELSE DictSet(DictOf(ks, vs, i - 1), ks[i], vs[i])

\* ChemMix.__init__, lines 86-87
ChemMixInit(species, n) ==
    [mix |-> DictOf(species.items, n.items, Len(species.items)), N |-> n.items]

\* the outcome of a constructor call
Built(op, args, err, o, X) ==
    /\ objs' = IF err = "" THEN Append(objs, o) ELSE objs
    /\ Xis' = X
    /\ ret' = [op |-> op, who |-> IF err = "" THEN Len(objs) + 1 ELSE 0,
               args |-> args, err |-> err, val |-> <<>>]
    /\ UNCHANGED <<cyc, ref, tick, eng>>

\* ChemMix(species, n)
NewChemMix ==
    /\ Len(objs) < MaxObjs
    /\ \E species \in SpeciesArgs, n \in MoleArgs :
           \E err \in {ChemMixRaises(species, n)} :
               Built("ChemMix", <<species, n>>, err,
                     IF err = "" THEN ChemMixInit(species, n) ELSE <<>>, Xis)

\* OttoMix(fuel, props, 1.0, pressao, temperatura, volume): ChemMix.__init__
\* is the first statement to run
NewOttoMixOf ==
    /\ Len(objs) < MaxObjs
    /\ \E fuel \in OttoFuelArgs, props \in OttoPropArgs :
           \E err \in {ChemMixRaises(fuel, props)} :
               IF err # "" THEN Built("OttoMix", <<fuel, props>>, err, <<>>, Xis)
               ELSE \E r \in {OttoMixInit(Xis, fuel.items, props.items, ROne, Pressao,
                                          Temperatura, Volume(fuel.items, ROne), RZero)} :
                        Built("OttoMix", <<fuel, props>>, "", r.obj, r.Xis)

\* objs[i].frac_molar()
FracMolar ==
    \E i \in 1..Len(objs) :
        \E X \in {frac_molar(Xis, objs[i])} :
            Apply("frac_molar", i, <<>>, Result("", objs[i], X, X))

NextChem == NewChemMix \/ NewOttoMixOf \/ FracMolar

SpecChem == Init /\ [][NextChem]_vars

\* C13: a constructor call of ChemMix or OttoMix with a fuel or a proportion
\* argument that is not a list, or with lists of different lengths, ends with
\* an error and creates no mixture object
C13_BadArgumentsRejected ==
    [][(/\ ret'.op \in {"ChemMix", "OttoMix"}
        /\ \/ ret'.args[1].kind # "list"
           \/ ret'.args[2].kind # "list"
           \/ Len(ret'.args[1].items) # Len(ret'.args[2].items))
       => (ret'.err # "" /\ objs' = objs)]_vars

\* C14: the mole fractions frac_molar() returns sum to 1, for every mixture
\* with a substance and amounts that are not negative, whatever calls of
\* frac_molar were made before on this or on another instance
C14_FractionsSumToOne ==
    (ret.op = "frac_molar" /\ ret.err = "") => RSum(DictValues(ret.val)) = ROne

(***************************************************************************)
(* SpecGrid: one process that constructs one Solve, with any of the step   *)
(* counts and angles below.  Angles are in units of pi.                    *)
(***************************************************************************)
MaxGridNa == 3      \* compression and expansion steps of a grid
MaxGridNc == 3      \* combustion steps of a grid
\* ignition angles: before bottom dead centre, on it, and up to 2 pi / 3
GridThetas == {Rat(-4, 3), RInt(-1), Rat(-2, 3), Rat(-1, 3), RZero, Rat(1, 3), Rat(2, 3)}
GridDeltas == {Rat(1, 3), ROne}
GridInputs ==
    {[in |-> [CycleBase EXCEPT !.theta = theta, !.delta = delta], na |-> na, nc |-> nc] :
        theta \in GridThetas, delta \in GridDeltas,
        na \in 1..MaxGridNa, nc \in 1..MaxGridNc}

\* Solve(engine, na, nc, theta, delta, ...)
NewGrid ==
    /\ cyc.pc = "none"
    /\ \E i \in GridInputs : \E p \in {NewProcess(i, FALSE)} :
           /\ Xis' = p.Xis
           /\ objs' = <<p.obj>>
           /\ cyc' = p.cyc
    /\ ret' = NoRet
    /\ UNCHANGED <<ref, tick, eng>>

SpecGrid == Init /\ [][NewGrid]_vars

\* C15: after construction alpha has 2 * Na + Nc + 1 entries, alpha[0] = -pi,
\* alpha[Na] = theta, alpha[Na + Nc] = theta + delta, alpha[2 * Na + Nc] = pi,
\* every entry is written by a branch of the loop, and the entries are
\* equally spaced inside each of the three segments
C15_AngleArray ==
    cyc.pc # "none" =>
        LET na == cyc.Na
            nc == cyc.Nc
            a(j) == At(cyc.alpha, j)
        IN  /\ Len(cyc.alpha) = 2 * na + nc + 1
            /\ a(0) = RNeg(ROne)
            /\ a(na) = cyc.theta
            /\ a(na + nc) = cyc.theta ++ cyc.delta
            /\ a(2 * na + nc) = ROne
            /\ \A j \in 0..(2 * na + nc) : AlphaBranch(j, na, nc) # 0
            /\ \A j \in 0..(na - 1) :
                   a(j + 1) -- a(j) = (cyc.theta ++ ROne) // RInt(na)
            /\ \A j \in na..(na + nc - 1) :
                   a(j + 1) -- a(j) = cyc.delta // RInt(nc)
            /\ \A j \in (na + nc)..(2 * na + nc - 1) :
                   a(j + 1) -- a(j) = ((ROne -- cyc.theta) -- cyc.delta) // RInt(na)

\* a grid of three steps per segment, ignition 60 degrees before top dead
\* centre, has been constructed
C15_Witness ==
    /\ cyc.pc = "idle"
    /\ cyc.Na = 3 /\ cyc.Nc = 3
    /\ cyc.theta = Rat(-1, 3) /\ cyc.delta = Rat(1, 3)
    /\ At(cyc.alpha, 1) = Rat(-7, 9)

\* C16: for every Na > 0, Nc > 0, delta > 0 and theta the angle sequence is
\* monotonically non-decreasing
C16_AnglesMonotone ==
    cyc.pc # "none" =>
        \A j \in 0..(Len(cyc.alpha) - 2) : RLe(At(cyc.alpha, j), At(cyc.alpha, j + 1))

\* C17: Y has one entry per grid point, each in [0, 1]; it is 0 at the
\* indices 0..Na, 1 at the indices Na + Nc..2 * Na + Nc, on the half-cosine
\* profile in between, and non-decreasing along the grid
C17_BurnedFraction ==
    cyc.pc # "none" =>
        LET na == cyc.Na
            nc == cyc.Nc
            y(j) == At(cyc.Y, j)
        IN  /\ Len(cyc.Y) = Len(cyc.alpha)
            /\ \A j \in 0..(2 * na + nc) : RLe(RZero, y(j)) /\ RLe(y(j), ROne)
            /\ \A j \in 0..na : y(j) = RZero
            /\ \A j \in (na + nc)..(2 * na + nc) : y(j) = ROne
            /\ \A j \in na..(na + nc) :
                   y(j) = Rat(1, 2) -- (Rat(1, 2) ** RCos(Rat(j - na, nc)))
            /\ \A j \in 0..(2 * na + nc - 1) : RLe(y(j), y(j + 1))

\* C18 as stated: 2 * Na + Nc + 1 entries for crank angle, volume and burned
\* fraction, 2 * Na + Nc for pressure, temperature, internal energy, specific
\* heat and work, and one entry fewer than these for the heat per step
C18_LengthsAsStated ==
    cyc.pc # "none" =>
        LET n == 2 * cyc.Na + cyc.Nc
        IN  /\ Len(cyc.alpha) = n + 1 /\ Len(cyc.vol) = n + 1 /\ Len(cyc.Y) = n + 1
            /\ Len(cyc.allP) = n /\ Len(cyc.allT) = n /\ Len(cyc.allU) = n
            /\ Len(cyc.allCv) = n /\ Len(cyc.trab) = n
            /\ Len(cyc.allQ) = Len(cyc.allP) - 1

\* C18: 2 * Na + Nc + 1 entries, one per grid point, for crank angle, volume,
\* burned fraction, pressure, temperature, internal energy and specific heat;
\* 2 * Na + Nc entries, one per transition, for work and heat per step
C18_ArrayLengths ==
    cyc.pc # "none" =>
        LET n == 2 * cyc.Na + cyc.Nc
        IN  /\ Len(cyc.alpha) = n + 1 /\ Len(cyc.vol) = n + 1 /\ Len(cyc.Y) = n + 1
            /\ Len(cyc.allP) = n + 1 /\ Len(cyc.allT) = n + 1 /\ Len(cyc.allU) = n + 1
            /\ Len(cyc.allCv) = n + 1
            /\ Len(cyc.trab) = n /\ Len(cyc.allQ) = n

\* a Solve of two compression steps and three combustion steps has been
\* constructed: eight grid points, seven transitions
C18_Witness ==
    /\ cyc.pc = "idle"
    /\ cyc.Na = 2 /\ cyc.Nc = 3
    /\ Len(cyc.allP) = 8 /\ Len(cyc.allQ) = 7

(***************************************************************************)
(* SpecCv: one OttoMix constructed first in its process, then asked for    *)
(* its instantaneous heat capacity and molar specific heat.                *)
(***************************************************************************)
CvZetas == ZetaSet \cup {Rat(1, 2)}

\* objs[1].upper_cv_j(y, zeta)
MixUpperCvJ ==
    \E y \in YSet, zeta \in CvZetas :
        Apply("upper_cv_j", 1, <<y, zeta>>, upper_cv_j(Xis, objs[1], y, zeta))

\* objs[1].cv_m_j(y, zeta)
MixCvMJ ==
    \E y \in YSet, zeta \in CvZetas :
        Apply("cv_m_j", 1, <<y, zeta>>, cv_m_j(Xis, objs[1], y, zeta))

NextCv == MixUpperCvJ \/ MixCvMJ

\* The (fuel, phi) of the mixtures asked for their specific heats: lean,
\* stoichiometric and rich charges of one and of two fuels, whose heat
\* capacities and mole totals stay within 32-bit numerators and denominators
CvInputs ==
    ({<<"CH4">>} \X {Rat(1, 2), Rat(3, 4), ROne})
    \cup ({<<"C8H18">>} \X {Rat(1, 2), ROne, Rat(5, 4)})
    \cup ({<<"C2H6O">>} \X {Rat(12, 25)})
    \cup ({<<"CH4", "C8H18">>} \X {Rat(12, 25), ROne})
    \cup ({<<"CH4", "C2H6O">>} \X {ROne})
InitCv ==
    \E in \in CvInputs, q_ext \in {RZero} :
        LET fuel == in[1]
            phi == in[2]
            r == OttoMixInit(<<>>, fuel, [i \in 1..Len(fuel) |-> ROne], phi,
                             Pressao, Temperatura, Volume(fuel, phi), q_ext)
        IN  /\ Xis = r.Xis
            /\ objs = <<r.obj>>
            /\ ret = NoRet
            /\ cyc = NoSolve
            /\ ref = <<>>
            /\ tick = FALSE
            /\ eng = NoEng

SpecCv == InitCv /\ [][NextCv]_vars

\* OttoMix.burnt_capacidade_termica_v, past burnt_n_i: sum of
\* burnt_cv_i[s] * burnt_N[s]
burnt_capacidade_termica_v(q) == BurntCv(<<RZero>> \o q.burnt_N)
\* OttoMix.burnt_cv_mix, past burnt_frac_molar: sum of
\* (burnt_N[s] / burnt_nTotal) * burnt_cv_i[s]
burnt_cv_mix(q) ==
    RSum([i \in 1..6 |-> (q.burnt_N[i] // q.burnt_nTotal) ** cv_i(BurntSpecies[i])])
\* IdealMix.cv_mix: sum of xi[key] * cv_i[key], xi the fractions of n
cv_mix(q) ==
    RSum([i \in 1..Len(q.mix) |-> (q.N[i] // RSum(q.N)) ** cv_i(q.mix[i][1])])

\* the blend of an unreacted value u and a burnt value b by zeta
Blend(zeta, u, b) == ((ROne -- zeta) ** u) ++ (zeta ** b)

\* a call of op with y = yy has returned a value
CvReturned(op, yy) == ret.op = op /\ ret.err = "" /\ ret.args[1] = yy

PrimFilled(c) ==
    /\ \A i \in 0..(Len(c.allCv) - 1) :
          At(c.allCv, i) = FromRat(upper_cv_j(Xis, objs[1], At(c.Y, i), c.zeta).val[1])
    /\ \A i \in 0..(Len(c.allQ) - 1) :
          At(c.allQ, i) =
              FromRat(qj(Xis, objs[1], At(c.Y, i), At(c.Y, i + 1), c.zeta).val[1])
\* the sums results() stores
Sums(c) == <<c.W_ent, c.W_sai, c.Q_ent, c.Q_sai, c.W_liq, c.eta, c.rbw>>

\* one step of the process, seen from a results(zeta) call
ResultsStage ==
    /\ (cyc.op # "results" /\ cyc'.op = "results") =>
           cyc'.pc = "prim_cv" /\ cyc'.j = 0
    /\ cyc.op = "results" =>
        /\ (cyc.pc = "step" /\ cyc.j = 0) => PrimFilled(cyc)
        /\ cyc'.op \in {"results", "none"}
        /\ cyc'.op = "results" =>
            /\ cyc'.zeta = cyc.zeta
            /\ Sums(cyc') = Sums(cyc)
            /\ cyc.pc = "prim_cv" => cyc'.pc \in {"prim_cv", "prim_q"}
            /\ cyc.pc = "prim_q" =>
                  /\ cyc'.pc \in {"prim_q", "step"}
                  /\ cyc'.pc = "step" => cyc'.j = 0
            /\ cyc.pc \in {"step", "loop"} =>
                  /\ cyc'.pc \in {"step", "loop"}
                  /\ cyc'.allCv = cyc.allCv /\ cyc'.allQ = cyc.allQ
                  /\ cyc.j < 2 * cyc.Na + cyc.Nc
                  /\ (cyc.pc = "step" /\ cyc'.pc = "loop") => cyc'.j = cyc.j
                  /\ (cyc.pc = "loop" /\ cyc'.pc = "loop") => cyc'.j = cyc.j
                  /\ cyc'.pc = "step" => cyc'.j = cyc.j + 1
                  /\ \A i \in 0..cyc.j :
                        /\ At(cyc'.allU, i) = At(cyc.allU, i)
                        /\ At(cyc'.allT, i) = At(cyc.allT, i)
                        /\ At(cyc'.allP, i) = At(cyc.allP, i)
                  /\ \A i \in 0..(cyc.j - 1) : At(cyc'.trab, i) = At(cyc.trab, i)
        /\ (cyc'.op = "none" /\ ret'.err # "") => Sums(cyc') = Sums(cyc)
        /\ (cyc'.op = "none" /\ ret'.err = "") =>
            /\ cyc.pc = "step" /\ cyc.j = 2 * cyc.Na + cyc.Nc
            /\ cyc'.trab = cyc.trab /\ cyc'.allQ = cyc.allQ
            /\ cyc'.W_ent = AccIn(cyc.trab, 1, FZero)
            /\ cyc'.W_sai = AccOut(cyc.trab, 1, FZero)

\* C20: within one results(zeta) call zeta stays the same; the call starts
\* with prim, which has filled allCv and allQ for that zeta before the first
\* step, and no step writes them; the steps j = 0, 1, ..., 2*Na+Nc-1 are
\* solved in increasing order, j going up by one when a step ends and the
\* entries of U, T, P up to j and of the work below j never written again;
\* the sums are written only at the end, from the work array as the last
\* step left it.
C20_StagesInOrder == [][ResultsStage]_vars
\* results is past the last step of a cycle of four steps, the last of them
\* solved in the while loop, and is about to add up the work
C20_Witness ==
    /\ cyc.op = "results" /\ cyc.pc = "step"
    /\ cyc.j = 2 * cyc.Na + cyc.Nc /\ cyc.j = 4
    /\ ~Isochoric(cyc, 3)
    /\ At(cyc.trab, 3)[1] # 0

(***************************************************************************)
(* The steps of iterate(), under SpecCycle                                 *)
(***************************************************************************)
\* the steps of the call under way that are finished
StepsDone == IF cyc.pc \in {"step", "loop"} THEN 0..(cyc.j - 1) ELSE {}

\* C21: while iterate runs, for every finished step j that was not
\* isochoric the pressure left in P[j+1] is n(y[j+1], zeta) * Ru * T[j+1] /
\* V[j+1], the mole count taken at y[j+1].
C21_FinalPressure ==
    \A i \in StepsDone :
        ~Isochoric(cyc, i) =>
            At(cyc.allP, i + 1) =
                IdealP(nm_j(Xis, objs[1], At(cyc.Y, i + 1), cyc.zeta).val[1],
                       At(cyc.allT, i + 1), At(cyc.vol, i + 1))

\* the while loop of a step is left: lines 222-226 run
LoopLeft == cyc.pc = "loop" /\ cyc'.pc = "step"
\* |W[k-1][j] - W[k][j]| of the step under way
LastGap(c) == FAbs(FSub(UpperW(c, c.k - 1, c.j), UpperW(c, c.k, c.j)))

\* C22 as stated: when the while loop of a step is left it has made at least
\* one pass, the last two work estimates differ by less than e_w, and the
\* work recorded for the step is the last estimate.
C22_ConvergedBelow ==
    [][LoopLeft =>
          /\ cyc.k >= 1
          /\ FLt(LastGap(cyc), cyc.e_W)
          /\ At(cyc'.trab, cyc.j) = UpperW(cyc, cyc.k, cyc.j)]_vars

\* C22: when the while loop of a step is left it has made at least one pass,
\* the last two work estimates differ by at most e_w, and the work recorded
\* for the step is the last estimate.
C22_Converged ==
    [][LoopLeft =>
          /\ cyc.k >= 1
          /\ FLe(LastGap(cyc), cyc.e_W)
          /\ At(cyc'.trab, cyc.j) = UpperW(cyc, cyc.k, cyc.j)]_vars
\* the while loop is about to be left after two passes or more, on two
\* estimates that still differ
C22_Witness ==
    /\ cyc.pc = "loop" /\ cyc.k >= 2 /\ ~LoopCond(cyc)
    /\ LastGap(cyc)[1] > 0

\* iterate(zeta), alone or inside results(zeta), has returned
IterateDone == cyc.pc = "idle" /\ ret.op \in {"iterate", "results"} /\ ret.err = ""

\* C23: after iterate has returned, for every step j the stored energies
\* satisfy U[j+1] = U[j] + Q[j] + W[j], W[j] the recorded work of the step,
\* which is exactly 0 for an isochoric step.
C23_FirstLaw ==
    IterateDone =>
        \A j \in 0..(Len(cyc.allQ) - 1) :
            /\ At(cyc.allU, j + 1) =
                   FAdd(FAdd(At(cyc.allU, j), At(cyc.allQ, j)), At(cyc.trab, j))
            /\ Isochoric(cyc, j) => At(cyc.trab, j) = FZero
\* iterate has returned for a cycle with a step solved in the loop that
\* exchanged heat and work
C23_Witness ==
    /\ IterateDone
    /\ \E j \in 0..(Len(cyc.allQ) - 1) :
          ~Isochoric(cyc, j) /\ At(cyc.allQ, j)[1] # 0 /\ At(cyc.trab, j)[1] # 0

(***************************************************************************)
(* The branches of burnt_n_i, under SpecMix                                *)
(***************************************************************************)
\* the fuels of the unreacted mixture: every key of mix but the air
FuelIndices(o) == {i \in 1..Len(o.mix) : o.mix[i][1] \notin {"O2", "N2"}}
\* the O2 the complete combustion of the fuel in the mixture takes
StoichO2(o) ==
    RSum([i \in 1..Len(o.mix) |->
            IF i \in FuelIndices(o)
            THEN o.N[i] ** ((RInt(atomize(o.mix[i][1]).C)
                             ++ Rat(atomize(o.mix[i][1]).H, 4))
                            -- Rat(atomize(o.mix[i][1]).O, 2))
            ELSE RZero])
\* the O2 and the N2 of the unreacted mixture
AirAmount(o, s) == o.N[CHOOSE i \in 1..Len(o.mix) : o.mix[i][1] = s]

\* C24: burnt_n_i takes the branch phi decides: for phi <= 1 CO and H2 are
\* zero, O2 is the O2 of the air less the O2 the fuel takes to burn
\* completely, and N2 is the N2 of the air; for phi > 1 CO is the root of the
\* quadratic, CO2, H2O and H2 follow from it, and O2 is zero.
C24_BranchByPhi ==
    (ret.op = "burnt_n_i" /\ ret.err = "") =>
        LET q == objs[1]
        IN  /\ ret.val = <<q.nCO2, q.nH2O, q.nCO, q.nH2, q.nO2, q.nN2>>
            /\ q.nN2 = AirAmount(q, "N2")
            /\ IF RLe(q.phi, ROne)
               THEN /\ q.nCO = RZero /\ q.nH2 = RZero
                    /\ q.nO2 = AirAmount(q, "O2") -- StoichO2(q)
               ELSE /\ q.nO2 = RZero
                    /\ q.nCO = SelectRoot(QuadA(q, k_default), QuadB(q, k_default),
                                          Disc(QuadA(q, k_default), QuadB(q, k_default),
                                               QuadC(q, k_default)))
                    /\ q.nCO2 = (RInt(q.nC) ** q.n_F) -- q.nCO

(***************************************************************************)
(* SpecRun: one OttoMix constructed first in its process, then asked for   *)
(* its burnt composition, heats, mole counts and specific heats in any     *)
(* order.                                                                  *)
(***************************************************************************)
\* objs[1].nm_j(y, zeta)
MixNmJ ==
    \E y \in YSet, zeta \in ZetaSet :
        Apply("nm_j", 1, <<y, zeta>>, nm_j(Xis, objs[1], y, zeta))

NextRun ==
    BurntNIWith \/ MixChi \/ MixQj \/ MixQTotal \/ MixNmJ \/ MixUpperCvJ \/ MixCvMJ

SpecRun == InitCv /\ [][NextRun]_vars

\* a step of the run keeps the burnt amounts the instance has stored
BurntKept == objs[1].burnt_N # <<>> => objs'[1].burnt_N = objs[1].burnt_N

\* C25: once burnt_n_i has stored the burnt amounts, no later call of
\* burnt_n_i, chi, qj, q_total, nm_j or a specific-heat operation changes
\* them: the composition is the same for the whole run.
C25_BurntFixed == [][BurntKept]_vars

(***************************************************************************)
(* The history buffers n_j and upper_w of iterate(), under SpecCycle.  The *)
(* statements are about the buffers as a pass of the loop leaves them at   *)
(* line 220, before the model drops the rows it no longer reads.           *)
(***************************************************************************)
\* the width of a row: [0.0] * (2 * Na + Nc)
RowLen(c) == 2 * c.Na + c.Nc
\* the state past line 220 of the pass that starts in c, c itself when the
\* pass raises
PassDone(c) ==
    Then(LoopEnergy(c), LAMBDA e :
    Then(nm_j(Xis, objs[1], At(c.Y, c.j + 1), c.zeta), LAMBDA r :
        IF r.err # "" THEN c
        ELSE Then(LoopPressure(e, r.val[1]), LAMBDA p :
                 IF LogError(PRatio(p), VRatio(p)) # "" THEN c
                 ELSE LoopWork(p, FDiv(FLn(PRatio(p)), FLn(VRatio(p)))))))
\* row r of buffer b is a row of buffer a, but for its column j
SameRowBut(a, b, r, j) ==
    /\ Len(b[r]) = Len(a[r])
    /\ \A i \in 1..Len(a[r]) : i # j + 1 => b[r][i] = a[r][i]
\* buffer b holds every row of buffer a, changed in column j at most
Extends(a, b, j) ==
    /\ Len(b) >= Len(a)
    /\ \A r \in 1..Len(a) : SameRowBut(a, b, r, j)
\* column i of the buffers holds what lines 195, 196, 210 and 220 put there
Untouched(c, i) ==
    /\ \A r \in 1..Len(c.n_j) : At(c.n_j[r], i) = FZero
    /\ \A r \in 1..Len(c.upper_w) : At(c.upper_w[r], i) \in {FOne, FZero}

\* C26: while the loop of step j runs, the rows upper_w[k-1], upper_w[k]
\* read by line 208 and line 211 exist, and so do the rows n_j[k+1] and
\* upper_w[k+1] a pass writes (line 209 has grown n_j before line 215, line
\* 219 grows upper_w for the pass after); every row is 2*Na + Nc wide and j
\* is within it; a pass keeps every row and every column but j; and step j
\* reads column j only, which holds nothing another step wrote: the columns
\* of the steps to come hold their initial values, as does upper_w[-1][j]
\* read at k = 0.
C26_BuffersGrow ==
    cyc.pc = "loop" =>
        /\ cyc.j < RowLen(cyc)
        /\ \A r \in 1..Len(cyc.n_j) : Len(cyc.n_j[r]) = RowLen(cyc)
        /\ \A r \in 1..Len(cyc.upper_w) : Len(cyc.upper_w[r]) = RowLen(cyc)
        /\ Len(cyc.n_j) >= cyc.k + 1
        /\ Len(cyc.upper_w) >= cyc.k + 2
        /\ Len(LoopEnergy(cyc).n_j) >= cyc.k + 2
        /\ Extends(cyc.n_j, PassDone(cyc).n_j, cyc.j)
        /\ Extends(cyc.upper_w, PassDone(cyc).upper_w, cyc.j)
        /\ \A i \in (cyc.j + 1)..(RowLen(cyc) - 1) : Untouched(cyc, i)
        /\ cyc.k = 0 => UpperW(cyc, -1, cyc.j) \in {FOne, FZero}
\* a step after the first is in its third pass or later, on rows the step
\* before has left behind, and the pass to come adds a row to both buffers
C26_Witness ==
    /\ cyc.pc = "loop" /\ cyc.j >= 1 /\ cyc.k >= 2
    /\ At(cyc.n_j[1], cyc.j - 1) # FZero
    /\ PassDone(cyc) # cyc
    /\ Len(PassDone(cyc).n_j) > Len(cyc.n_j)
    /\ Len(PassDone(cyc).upper_w) > Len(cyc.upper_w)

(***************************************************************************)
(* The state arrays after iterate(), under SpecCycle                       *)
(***************************************************************************)
\* a and b agree to the rounding of the arithmetic: three decimal places
Close(a, b) == FLe(FAbs(FSub(a, b)), FMul(FAbs(b), <<1000, -6>>))
\* T[i] * Cv[i] = U[i]
Consistent(c, i) == Close(FMul(At(c.allT, i), At(c.allCv, i)), At(c.allU, i))

\* C27: after iterate has returned, T[j] * Cv[j] = U[j] at every grid index
\* j from 0 to 2*Na + Nc, the start state and the end points of isochoric
\* steps included, Cv[j] the upper_cv_j(Y[j], zeta) prim has stored.
C27_StateConsistent ==
    IterateDone => \A i \in 0..(Len(cyc.allU) - 1) : Consistent(cyc, i)

(***************************************************************************)
(* The heats of prim(), under SpecCycle                                    *)
(***************************************************************************)
\* prim(zeta), alone or inside iterate or results, has filled allQ and the
\* call has returned
PrimDone ==
    cyc.pc = "idle" /\ ret.op \in {"prim", "iterate", "results"} /\ ret.err = ""
\* qj(0, 1, zeta) and q_total(zeta) of the mixture, zeta that of the call
\* that has returned
WholeQj == qj(Xis, objs[1], RZero, ROne, ret.args[1]).val[1]
WholeQTotal == q_total(Xis, objs[1], ret.args[1]).val[1]

\* C28: the heats prim(zeta) has stored add up to qj(0, 1, zeta), and
\* that is q_total(zeta), whatever zeta and q_ext.
C28_HeatsAddUp ==
    PrimDone =>
        /\ Close(FSumTo(cyc.allQ, Len(cyc.allQ)), FromRat(WholeQj))
        /\ WholeQj = WholeQTotal

(***************************************************************************)
(* The resolution loop of solver(), under SpecEngFair: a call that is in   *)
(* the loop runs its next pass, or returns                                 *)
(***************************************************************************)
SpecEngFair == SpecEng /\ WF_vars(SolverWhile \/ SolverReturn)

\* every value known in d1 is in d2 as it is in d1
Keeps(d1, d2) == \A key \in known(d1) : key \in DOMAIN d2 /\ d2[key] = d1[key]
\* the dictionary past the first n entries of u_rel in the pass to come
PassPrefix(n) == SolverFor(SubSeq(eng.u_rel, 1, n), 1, eng).d
\* a pass of the loop, entry by entry, and the step that takes it keep what
\* is known
NoOverwrite ==
    eng.pc = "while" =>
        /\ \A n \in 1..Len(eng.u_rel) : Keeps(PassPrefix(n - 1), PassPrefix(n))
        /\ Keeps(eng.d, eng'.d)
\* no relation is left with exactly one unknown symbol
Fixpoint(d) == \A i \in 1..Len(rel) : Cardinality(rel[i].free \ known(d)) # 1
\* the loop is over: solver has returned, or an exception has ended the call
LoopOver == eng.pc \in {"return", "raised"}

\* C29: on a non-empty dictionary that has passed the test of the redundant
\* relations the resolution loop comes to an end; no pass, and no entry of
\* a pass, changes a value that was known; and when solver has returned
\* True no relation of the table is left with exactly one unknown symbol.
C29_SolverLoop ==
    /\ (eng.pc = "while") ~> LoopOver
    /\ [][NoOverwrite]_vars
    /\ []((eng.pc = "return" /\ eng.status = "True") => Fixpoint(eng.d))
\* solver has returned True on a dictionary that gave V_1, V_2 and z only:
\* V_du and r_v were solved in the first pass of the loop and V_d, which
\* needs V_du, in the second
C29_Witness ==
    /\ eng.pc = "return" /\ eng.status = "True"
    /\ known(eng.arg.d) = {"V_1", "V_2", "z"}
    /\ "V_d" \in DOMAIN eng.arg.d
    /\ known(eng.d) = EngKeys

(***************************************************************************)
(* What prim, iterate and results leave alone, under SpecCycle             *)
(***************************************************************************)
\* what the constructor of Solve has fixed
Fixed(c) == <<c.E, c.Na, c.Nc, c.theta, c.delta, c.alpha, c.vol, c.Y, c.e_V, c.e_W>>
\* the fuel and air amounts of the mixture
MixFixed(o) == <<o.n_F, o.n_ar, o.N, o.mix>>
\* array b is array a but for the entries of the indices in S
SameBut(a, b, S) ==
    /\ Len(b) = Len(a)
    /\ \A i \in 1..Len(a) : (i - 1) \notin S => b[i] = a[i]
\* the entries of the cycle arrays a step may write, from where the call is:
\* the start state (lines 161-163), Cv[j] (165), Q[j] (167), and U[j+1],
\* T[j+1], P[j+1], trab[j] (lines 200-226)
ArraysKept ==
    LET at(p, S) == IF cyc.pc \in p THEN S ELSE {}
        start == at({"idle"}, {0})
        next  == at({"step", "loop"}, {cyc.j + 1})
    IN  /\ SameBut(cyc.allT, cyc'.allT, start \cup next)
        /\ SameBut(cyc.allP, cyc'.allP, start \cup next)
        /\ SameBut(cyc.allU, cyc'.allU, start \cup next)
        /\ SameBut(cyc.allCv, cyc'.allCv, at({"prim_cv"}, {cyc.j}))
        /\ SameBut(cyc.allQ, cyc'.allQ, at({"prim_q"}, {cyc.j}))
        /\ SameBut(cyc.trab, cyc'.trab, at({"step", "loop"}, {cyc.j}))
\* a step of prim, iterate or results: every step but the construction of
\* a new instance
FrameKept ==
    ~cyc'.fresh =>
        /\ Fixed(cyc') = Fixed(cyc)
        /\ MixFixed(objs'[1]) = MixFixed(objs[1])
        /\ ArraysKept

\* C30: no step of prim, iterate or results changes the geometry record,
\* the alpha, vol and Y grids, the tolerances e_v and e_w, or the fuel and
\* air amounts of the mixture; and the operation of the mixture that a
\* step calls changes no cycle array: the arrays change in the one entry
\* the statement of Solve stores, and nowhere else.
C30_FrameKept == [][FrameKept]_vars
\* iterate has returned after an earlier call with another zeta, with work
\* stored, and the grids and amounts are those of the construction
C30_Witness ==
    /\ cyc.pc = "idle" /\ ret.op = "iterate" /\ ret.err = "" /\ cyc.mixed
    /\ \E i \in 1..Len(cyc.trab) : cyc.trab[i] # FZero
    /\ cyc.alpha = AlphaArray(cyc.Na, cyc.Nc, cyc.theta, cyc.delta)
    /\ cyc.vol = [i \in 1..Len(cyc.alpha) |-> CrankV(cyc.E, cyc.alpha[i])]
    /\ MixFixed(objs[1]) = MixFixed(Solo(objs[1]))
====
